---- MODULE Spec2Model ----
(***************************************************************************)
(* Model of the Rat Detective Online game server (server/index.js): the    *)
(* session map, the round flag, the socket handlers and the two kinds of   *)
(* setTimeout callbacks (respawn, round reset).                            *)
(*                                                                         *)
(* The server is single threaded: every handler and every timer callback   *)
(* runs to completion, so each one is one atomic action.                   *)
(***************************************************************************)
EXTENDS Integers, Sequences, FiniteSets, TLC

(* ------------------------------ constants ------------------------------ *)

MAX_HP == 3
KILLS_TO_WIN == 20

RESPAWN_DELAY_MS == 5000
WIN_DISPLAY_MS == 6000

\* Bounds of the exploration (not program constants).
MaxLethal == 1          \* lives ended by hits in one behaviour

\* Connection ids (socket.id); an id is used by one connection only.
Ids == {"a", "b"}

\* damage values carried by a hit event: body shot, head shot
Damages == {1, 3}

\* Math.random() in hundredths: r stands for the value r/100 in [0, 1).
\* A spawn draws two values, one for x and one for z.
RandPairs == {<<0, 99>>}

\* null / undefined for a numeric payload field
Undefined == -1

\* the payload of the join event each client sends: "a" leaves every field
\* out (the server's defaults apply), "b" sets every field
JoinPayloads ==
    [i \in Ids |->
       IF i = "a"
       THEN [name |-> "", hatType |-> "", hatColor |-> Undefined,
             furColor |-> Undefined, coatColor |-> Undefined]
       ELSE [name |-> "Rex", hatType |-> "cowboy", hatColor |-> 0,
             furColor |-> 7, coatColor |-> 9]]

\* payloads of the updateMovement event, as the client builds them: a
\* position outside the spawn square, the body turned, the mesh tilted
MovePayloads ==
    { [x |-> 60, y |-> 5, z |-> -70, qx |-> 0, qy |-> 1, qz |-> 0, qw |-> 0,
       meshQx |-> 1, meshQy |-> 0, meshQz |-> 0, meshQw |-> 0] }

(* -------------------------------- state -------------------------------- *)

VARIABLES
    conn,            \* ids of the sockets currently connected
    closed,          \* ids of the sockets that have disconnected
    players,         \* the players object: id -> session record
    keys,            \* key order of the players object (Object.entries order)
    gameInProgress,  \* false during the win screen
    timers,          \* pending setTimeout callbacks, in expiry order
    out,             \* messages emitted by the last handler, in order
    ev,              \* the event the last handler processed
    lifeDeaths,      \* id -> deaths recorded since the session's last spawn
    lifeDied,        \* id -> playerDied broadcasts since the last spawn
    roundWins,       \* gameWon broadcasts since the last resetGame
    winVictim,       \* victim of the hit that won the round, "" outside the win screen
    nLethal,         \* lives ended so far (bounded by MaxLethal)
    myId,            \* client: NetworkManager.myId, "" before the connect event
    rat,             \* client: the local player's entity (hp, dead)
    remoteRats,      \* client: NetworkManager.remoteRats, id -> remote avatar
    balls,           \* client: CheeseGun.balls, the projectiles in flight
    now,             \* client: performance.now(), in ms
    lastSendTime,    \* client: NetworkManager.lastSendTime
    inbox            \* client: messages the socket has received, not yet handled

\* the history variables: they record what happened, no handler reads them
hist == <<lifeDeaths, lifeDied, roundWins, winVictim, nLethal>>

\* the state of the server, and the state of one client
server == <<conn, closed, players, keys, gameInProgress, timers, hist>>
net == <<now, lastSendTime, inbox>>
client == <<myId, rat, remoteRats, balls, net>>

vars == <<conn, closed, players, keys, gameInProgress, timers, out, ev, hist,
          client>>

(* ------------------------------- helpers ------------------------------- *)

Range(s) == {s[i] : i \in 1..Len(s)}

\* the empty players object
NoPlayers == [i \in {} |-> 0]

\* the event a handler processes: its type, the socket (or timer victim) it
\* belongs to, and for a hit the payload
Ev(type, id, victimId, damage) ==
    [type |-> type, id |-> id, victimId |-> victimId, damage |-> damage]

\* a || b for strings: the empty string (and undefined) is falsy
OrDefault(v, d) == IF v = "" THEN d ELSE v

\* a ?? b for numbers: only null / undefined take the default
Coalesce(v, d) == IF v = Undefined THEN d ELSE v

\* (Math.random() - 0.5) * 100 for Math.random() = r/100
SpawnCoord(r) == r - 50

\* the record join stores in players[socket.id]
NewPlayer(data, rx, rz) ==
    [x |-> SpawnCoord(rx), y |-> 2, z |-> SpawnCoord(rz),
     qx |-> 0, qy |-> 0, qz |-> 0, qw |-> 1,
     name |-> OrDefault(data.name, "Anonymous Rat"),
     hp |-> MAX_HP,
     kills |-> 0,
     deaths |-> 0,
     hatType |-> OrDefault(data.hatType, "fedora"),
     hatColor |-> Coalesce(data.hatColor, 14436924),
     furColor |-> Coalesce(data.furColor, 15251533),
     coatColor |-> Coalesce(data.coatColor, 12469573)]

\* one scoreboard row
Row(id, p) == [id |-> id, name |-> p.name, kills |-> p.kills, deaths |-> p.deaths]

\* Cmp with the tie broken by more deaths first
Cmp_DeathsDesc(a, b) == IF b.kills - a.kills # 0 THEN b.kills - a.kills
                        ELSE b.deaths - a.deaths

\* the comparator of buildScoreboard: negative when a sorts before b
Cmp(a, b) == IF b.kills - a.kills # 0 THEN b.kills - a.kills
             ELSE a.deaths - b.deaths

\* insert row r into the sorted sequence s after every row it does not precede
RECURSIVE Insert(_, _)
Insert(r, s) ==
    IF s = <<>> THEN <<r>>
    ELSE IF Cmp(r, s[1]) < 0 THEN <<r>> \o s
         ELSE <<s[1]>> \o Insert(r, Tail(s))

\* Array.prototype.sort is stable: rows that compare equal keep entry order
RECURSIVE SortRows(_)
SortRows(s) ==
    IF s = <<>> THEN <<>>
    ELSE Insert(s[Len(s)], SortRows(SubSeq(s, 1, Len(s) - 1)))

\* buildScoreboard() over the players object ps with key order ks
buildScoreboard(ps, ks) ==
    SortRows([i \in 1..Len(ks) |-> Row(ks[i], ps[ks[i]])])

(* ------------------------------ messages ------------------------------- *)

\* io.emit reaches every connected socket
ToAll(c) == c

\* ToOthers that reaches the sender too
ToOthers_All(c, id) == c

\* socket.broadcast.emit reaches every connected socket but the sender
ToOthers(c, id) == c \ {id}

MsgCurrentPlayers(id, ps) ==
    [type |-> "currentPlayers", to |-> {id}, players |-> ps]

\* MsgPlayerJoined sent with io.emit instead of socket.broadcast.emit
MsgPlayerJoined_ToAll(c, id, p) ==
    [type |-> "playerJoined", to |-> ToAll(c), id |-> id, player |-> p]

MsgPlayerJoined(c, id, p) ==
    [type |-> "playerJoined", to |-> ToOthers(c, id), id |-> id, player |-> p]

MsgScoreboard(c, ps, ks) ==
    [type |-> "scoreboardUpdate", to |-> ToAll(c), board |-> buildScoreboard(ps, ks)]

\* MsgPlayerDamaged sent with socket.broadcast.emit instead of io.emit
MsgPlayerDamaged_ToOthers(c, victimId, hp, attackerId) ==
    [type |-> "playerDamaged", to |-> ToOthers(c, attackerId), id |-> victimId,
     hp |-> hp, attackerId |-> attackerId]

MsgPlayerDamaged(c, victimId, hp, attackerId) ==
    [type |-> "playerDamaged", to |-> ToAll(c), id |-> victimId, hp |-> hp,
     attackerId |-> attackerId]

MsgPlayerDied(c, victimId, killerId, killerName, victimName) ==
    [type |-> "playerDied", to |-> ToAll(c), victimId |-> victimId,
     killerId |-> killerId, killerName |-> killerName, victimName |-> victimName]

MsgGameWon(c, winnerId, winnerName, kills) ==
    [type |-> "gameWon", to |-> ToAll(c), winnerId |-> winnerId,
     winnerName |-> winnerName, kills |-> kills]

MsgPlayerRespawn(c, id, x, y, z, hp) ==
    [type |-> "playerRespawn", to |-> ToAll(c), id |-> id, x |-> x, y |-> y,
     z |-> z, hp |-> hp]

MsgGameReset(c) == [type |-> "gameReset", to |-> ToAll(c)]

MsgPlayerLeft(c, id) == [type |-> "playerLeft", to |-> ToOthers(c, id), id |-> id]

MsgPlayerMoved(c, id, data) ==
    [type |-> "playerMoved", to |-> ToOthers(c, id), id |-> id,
     x |-> data.x, y |-> data.y, z |-> data.z,
     qx |-> data.qx, qy |-> data.qy, qz |-> data.qz, qw |-> data.qw,
     meshQx |-> Coalesce(data.meshQx, 0), meshQy |-> Coalesce(data.meshQy, 0),
     meshQz |-> Coalesce(data.meshQz, 0), meshQw |-> Coalesce(data.meshQw, 1)]

MsgPlayerShot(c, id) == [type |-> "playerShot", to |-> ToOthers(c, id), shooterId |-> id]

\* the messages of type t in the sequence s
OfType(s, t) == {i \in 1..Len(s) : s[i].type = t}

(* ------------------------------- timers -------------------------------- *)

\* setTimeout(() => resetGame(), WIN_DISPLAY_MS)
ResetTimer == [kind |-> "reset", victimId |-> "", attached |-> FALSE]

\* setTimeout(respawn callback, RESPAWN_DELAY_MS).  The callback closes over
\* victimId and over the record `victim'; attached says that this record is
\* still the one stored in players[victimId].
RespawnTimer(victimId) == [kind |-> "respawn", victimId |-> victimId, attached |-> TRUE]

\* Detach that cancels every pending timer
Detach_CancelAll(ts, id) == <<>>

\* players[id] is deleted or replaced by a new record: the pending respawn
\* callbacks that captured the old record keep it, the players object does not
Detach(ts, id) ==
    [i \in 1..Len(ts) |->
        IF ts[i].kind = "respawn" /\ ts[i].victimId = id
        THEN [ts[i] EXCEPT !.attached = FALSE] ELSE ts[i]]

\* a record that is no longer in the players object.  Only the callback that
\* captured it can reach it, and the callback assigns hp, x, y and z before it
\* reads them: no other field and no old value of it is observable.
Orphan == [hp |-> 0, x |-> 0, y |-> 0, z |-> 0]

\* the delay a pending timer was scheduled with
Delay(t) == IF t.kind = "reset" THEN WIN_DISPLAY_MS ELSE RESPAWN_DELAY_MS

\* the number of pending timers of a kind
Pending(ts, kind) == Cardinality({i \in 1..Len(ts) : ts[i].kind = kind})

(* ------------------------- steps of the handlers ----------------------- *)

\* updateMovement: p.x = x; ... p.qw = qw
Moved(p, data) ==
    [p EXCEPT !.x = data.x, !.y = data.y, !.z = data.z,
              !.qx = data.qx, !.qy = data.qy, !.qz = data.qz, !.qw = data.qw]

\* ShootIgnored without the check: every shoot is relayed
ShootIgnored_Never(ps, id) == FALSE

\* the early return of the shoot handler: the sender has no session
ShootIgnored(ps, id) == id \notin DOMAIN ps

\* Removed that leaves the session in the players object
Removed_Keeps(ps, id) == ps

\* delete players[socket.id]
Removed(ps, id) == [i \in DOMAIN ps \ {id} |-> ps[i]]

\* IsDead with the comparison off by one: hp 0 counts as alive
IsDead_Strict(p) == p.hp < 0

\* victim.hp <= 0
IsDead(p) == p.hp <= 0

\* HitIgnored without the "already dead" return
HitIgnored_NoDeadGuard(ps, active, id, victimId) ==
    \/ ~active
    \/ victimId \notin DOMAIN ps
    \/ id \notin DOMAIN ps

\* HitIgnored without the "win screen" return
HitIgnored_NoRoundGuard(ps, active, id, victimId) ==
    \/ victimId \notin DOMAIN ps
    \/ id \notin DOMAIN ps
    \/ IsDead(ps[victimId])

\* HitIgnored that also drops the hit of a dead shooter
HitIgnored_DeadShooter(ps, active, id, victimId) ==
    \/ ~active
    \/ victimId \notin DOMAIN ps
    \/ id \notin DOMAIN ps
    \/ IsDead(ps[victimId])
    \/ IsDead(ps[id])

\* the early returns of the hit handler
HitIgnored(ps, active, id, victimId) ==
    \/ ~active
    \/ victimId \notin DOMAIN ps
    \/ id \notin DOMAIN ps
    \/ IsDead(ps[victimId])

\* victim.hp -= damage
Damaged(ps, victimId, damage) ==
    [ps EXCEPT ![victimId].hp = @ - damage]

\* Credit that counts the kill for the victim instead of the shooter
Credit_Victim(ps, id, victimId) ==
    LET p1 == [ps EXCEPT ![victimId].kills = @ + 1]
    IN [p1 EXCEPT ![victimId].deaths = @ + 1]

\* Credit that forgets victim.deaths++
Credit_NoDeaths(ps, id, victimId) ==
    [ps EXCEPT ![id].kills = @ + 1]

\* Credit that counts the kill twice
Credit_Twice(ps, id, victimId) ==
    LET p1 == [ps EXCEPT ![id].kills = @ + 2]
    IN [p1 EXCEPT ![victimId].deaths = @ + 1]

\* shooter.kills++; victim.deaths++
Credit(ps, id, victimId) ==
    LET p1 == [ps EXCEPT ![id].kills = @ + 1]
    IN [p1 EXCEPT ![victimId].deaths = @ + 1]

\* WinReached that lets the threshold itself pass
WinReached_Late(p) == p.kills > KILLS_TO_WIN

\* shooter.kills >= KILLS_TO_WIN
WinReached(p) == p.kills >= KILLS_TO_WIN

\* HitTimers that schedules the victim's respawn on a win too, and no reset
HitTimers_NoReset(ts, won, victimId) == Append(ts, RespawnTimer(victimId))

\* HitTimers that schedules no respawn
HitTimers_NoRespawn(ts, won, victimId) ==
    IF won THEN Append(ts, ResetTimer) ELSE ts

\* HitTimers that schedules the respawn twice
HitTimers_Twice(ts, won, victimId) ==
    IF won THEN Append(ts, ResetTimer)
    ELSE Append(Append(ts, RespawnTimer(victimId)), RespawnTimer(victimId))

\* HitTimers without the return of the win branch: the respawn is scheduled
\* after the reset
HitTimers_NoReturn(ts, won, victimId) ==
    IF won THEN Append(Append(ts, ResetTimer), RespawnTimer(victimId))
    ELSE Append(ts, RespawnTimer(victimId))

\* the timer a lethal hit schedules: the round reset on a win (and then no
\* respawn, the handler returns), the victim's respawn otherwise
HitTimers(ts, won, victimId) ==
    IF won THEN Append(ts, ResetTimer) ELSE Append(ts, RespawnTimer(victimId))

\* RespawnSkipped without the check: the callback always runs
RespawnSkipped_Never(ps, victimId) == FALSE

\* the early return of the respawn callback
RespawnSkipped(ps, victimId) == victimId \notin DOMAIN ps

\* the respawn callback: full health at a fresh spawn point
Respawned(p, rx, rz) ==
    [p EXCEPT !.hp = MAX_HP, !.x = SpawnCoord(rx), !.y = 2, !.z = SpawnCoord(rz)]

\* ResetPlayer without player.hp = MAX_HP
ResetPlayer_KeepHp(p, rx, rz) ==
    [p EXCEPT !.kills = 0, !.deaths = 0,
              !.x = SpawnCoord(rx), !.y = 2, !.z = SpawnCoord(rz)]

\* ResetPlayer that also puts the default name back
ResetPlayer_Rename(p, rx, rz) ==
    [p EXCEPT !.kills = 0, !.deaths = 0, !.hp = MAX_HP, !.name = "Anonymous Rat",
              !.x = SpawnCoord(rx), !.y = 2, !.z = SpawnCoord(rz)]

\* resetGame, for one player
ResetPlayer(p, rx, rz) ==
    [p EXCEPT !.kills = 0, !.deaths = 0, !.hp = MAX_HP,
              !.x = SpawnCoord(rx), !.y = 2, !.z = SpawnCoord(rz)]

\* ResetBroadcasts with the scoreboard published before the round reset signal
ResetBroadcasts_BoardFirst(c, ps, ks) ==
    [i \in 1..Len(ks) |->
       MsgPlayerRespawn(c, ks[i], ps[ks[i]].x, ps[ks[i]].y, ps[ks[i]].z,
                        ps[ks[i]].hp)]
    \o << MsgScoreboard(c, ps, ks), MsgGameReset(c) >>

\* ResetBroadcasts without the scoreboard
ResetBroadcasts_NoBoard(c, ps, ks) ==
    [i \in 1..Len(ks) |->
       MsgPlayerRespawn(c, ks[i], ps[ks[i]].x, ps[ks[i]].y, ps[ks[i]].z,
                        ps[ks[i]].hp)]
    \o << MsgGameReset(c) >>

\* the messages of resetGame over the reset players ps in key order ks: one
\* playerRespawn per player, then gameReset, then the scoreboard
ResetBroadcasts(c, ps, ks) ==
    [i \in 1..Len(ks) |->
       MsgPlayerRespawn(c, ks[i], ps[ks[i]].x, ps[ks[i]].y, ps[ks[i]].z,
                        ps[ks[i]].hp)]
    \o << MsgGameReset(c), MsgScoreboard(c, ps, ks) >>

\* the deaths a step adds to the session of i
DeathsAdded(i, ps, qs) ==
    IF i \in DOMAIN ps /\ i \in DOMAIN qs THEN qs[i].deaths - ps[i].deaths ELSE 0

\* the playerDied messages of the sequence s that name i as the victim
DiedNaming(i, s) ==
    Cardinality({k \in OfType(s, "playerDied") : s[k].victimId = i})

(* ----------------------------- initial state --------------------------- *)

\* the empty remoteRats map
NoRats == [i \in {} |-> 0]

\* the client before the player has entered the game: no socket, the local
\* entity as constructed, no avatar, no projectile.  The specifications of the
\* server keep the client in this state.
ClientOff ==
    /\ myId = ""
    /\ rat = [hp |-> MAX_HP, dead |-> FALSE]
    /\ remoteRats = NoRats
    /\ balls = <<>>
    /\ now = 0
    /\ lastSendTime = 0
    /\ inbox = <<>>

\* the server right after start: no sockets, no sessions, round active
InitCold ==
    /\ conn = {}
    /\ closed = {}
    /\ players = NoPlayers
    /\ keys = <<>>
    /\ gameInProgress = TRUE
    /\ timers = <<>>
    /\ out = <<>>
    /\ ev = Ev("start", "", "", 0)
    /\ lifeDeaths = [i \in Ids |-> 0]
    /\ lifeDied = [i \in Ids |-> 0]
    /\ roundWins = 0
    /\ winVictim = ""
    /\ nLethal = 0
    /\ ClientOff

\* a round in which "a" has killed "b" KILLS_TO_WIN - 1 times and every
\* respawn timer has fired: the state from which the next kill of "a" wins
InitWarm ==
    /\ conn = {"a", "b"}
    /\ closed = {}
    /\ players = [i \in {"a", "b"} |->
                    IF i = "a"
                    THEN [NewPlayer(JoinPayloads["a"], 0, 99)
                             EXCEPT !.kills = KILLS_TO_WIN - 1]
                    ELSE [NewPlayer(JoinPayloads["b"], 0, 99)
                             EXCEPT !.deaths = KILLS_TO_WIN - 1]]
    /\ keys = <<"a", "b">>
    /\ gameInProgress = TRUE
    /\ timers = <<>>
    /\ out = <<>>
    /\ ev = Ev("start", "", "", 0)
    /\ lifeDeaths = [i \in Ids |-> 0]
    /\ lifeDied = [i \in Ids |-> 0]
    /\ roundWins = 0
    /\ winVictim = ""
    /\ nLethal = 0
    /\ ClientOff

Init == InitCold \/ InitWarm

(* ------------------------------- actions ------------------------------- *)

\* io.on('connection'): a new socket; only registers the handlers
Connect(id) ==
    /\ id \notin conn
    /\ id \notin closed
    /\ conn' = conn \cup {id}
    /\ out' = <<>>
    /\ ev' = Ev("connection", id, "", 0)
    /\ UNCHANGED <<closed, players, keys, gameInProgress, timers, hist, client>>

\* socket.on('join')
Join(id, data) ==
    /\ id \in conn
    /\ \E r \in RandPairs :
         LET p  == NewPlayer(data, r[1], r[2])
             ks == IF id \in DOMAIN players THEN keys ELSE Append(keys, id)
             ps == [i \in DOMAIN players \cup {id} |->
                       IF i = id THEN p ELSE players[i]]
         IN /\ players' = ps
            /\ keys' = ks
            /\ out' = << MsgCurrentPlayers(id, ps),
                         MsgPlayerJoined(conn, id, p),
                         MsgScoreboard(conn, ps, ks) >>
    /\ timers' = Detach(timers, id)
    /\ ev' = Ev("join", id, "", 0)
    /\ lifeDeaths' = [lifeDeaths EXCEPT ![id] = 0]
    /\ lifeDied' = [lifeDied EXCEPT ![id] = 0]
    /\ UNCHANGED <<conn, closed, gameInProgress, roundWins,
                   winVictim, nLethal, client>>

\* socket.on('updateMovement')
UpdateMovement(id, data) ==
    /\ id \in conn
    /\ IF id \notin DOMAIN players
       THEN /\ players' = players
            /\ out' = <<>>
       ELSE /\ players' = [players EXCEPT ![id] = Moved(@, data)]
            /\ out' = << MsgPlayerMoved(conn, id, data) >>
    /\ ev' = Ev("updateMovement", id, "", 0)
    /\ UNCHANGED <<conn, closed, keys, gameInProgress, timers, hist, client>>

\* socket.on('shoot')
Shoot(id) ==
    /\ id \in conn
    /\ out' = IF ShootIgnored(players, id) THEN <<>>
              ELSE << MsgPlayerShot(conn, id) >>
    /\ ev' = Ev("shoot", id, "", 0)
    /\ UNCHANGED <<conn, closed, players, keys, gameInProgress,
                   timers, hist, client>>

\* socket.on('hit'), sent by socket id with payload {victimId, damage}
Hit(id, victimId, damage) ==
    /\ id \in conn
    /\ ev' = Ev("hit", id, victimId, damage)
    /\ IF HitIgnored(players, gameInProgress, id, victimId)
       THEN /\ out' = <<>>
            /\ UNCHANGED <<players, gameInProgress, timers, hist>>
       ELSE LET p1 == Damaged(players, victimId, damage)
                dmg == MsgPlayerDamaged(conn, victimId, p1[victimId].hp, id)
            IN IF ~IsDead(p1[victimId])
               THEN /\ players' = p1
                    /\ out' = << dmg >>
                    /\ UNCHANGED <<gameInProgress, timers, hist>>
               ELSE LET p2 == Credit(p1, id, victimId)
                        won == WinReached(p2[id])
                        first == lifeDeaths[victimId] = 0
                    IN /\ first => nLethal < MaxLethal
                       /\ nLethal' = IF first THEN nLethal + 1 ELSE nLethal
                       /\ players' = p2
                       /\ gameInProgress' = IF won THEN FALSE ELSE gameInProgress
                       /\ timers' = HitTimers(timers, won, victimId)
                       /\ out' = << dmg,
                                    MsgPlayerDied(conn, victimId, id,
                                                  p2[id].name, p2[victimId].name),
                                    MsgScoreboard(conn, p2, keys) >>
                                 \o (IF won
                                     THEN << MsgGameWon(conn, id, p2[id].name,
                                                        p2[id].kills) >>
                                     ELSE <<>>)
                       /\ lifeDeaths' = [i \in Ids |->
                                           lifeDeaths[i] + DeathsAdded(i, players, p2)]
                       /\ lifeDied' = [i \in Ids |-> lifeDied[i] + DiedNaming(i, out')]
                       /\ roundWins' = roundWins + Cardinality(OfType(out', "gameWon"))
                       /\ winVictim' = IF won THEN victimId ELSE winVictim
    /\ UNCHANGED <<conn, closed, keys, client>>

\* the respawn callback scheduled by a lethal hit fires.  Callbacks of equal
\* delay fire in the order they were scheduled.
RespawnFires ==
    /\ timers # <<>>
    /\ Head(timers).kind = "respawn"
    /\ timers' = Tail(timers)
    /\ LET t == Head(timers)
           victimId == t.victimId
       IN /\ ev' = Ev("respawn", victimId, "", 0)
          /\ IF RespawnSkipped(players, victimId)
             THEN /\ out' = <<>>
                  /\ UNCHANGED <<players, lifeDeaths, lifeDied>>
             ELSE \E r \in RandPairs :
                    LET victim == IF t.attached THEN players[victimId] ELSE Orphan
                        v == Respawned(victim, r[1], r[2])
                    IN /\ out' = << MsgPlayerRespawn(conn, victimId, v.x, v.y,
                                                     v.z, v.hp) >>
                       /\ IF t.attached
                          THEN /\ players' = [players EXCEPT ![victimId] = v]
                               /\ lifeDeaths' = [lifeDeaths EXCEPT ![victimId] = 0]
                               /\ lifeDied' = [lifeDied EXCEPT ![victimId] = 0]
                          ELSE UNCHANGED <<players, lifeDeaths, lifeDied>>
    /\ UNCHANGED <<conn, closed, keys, gameInProgress, roundWins,
                   winVictim, nLethal, client>>

\* the round reset callback scheduled by the win fires: resetGame().  It was
\* scheduled after every pending respawn callback and with a longer delay, so
\* it fires after them.
ResetFires ==
    /\ timers # <<>>
    /\ Head(timers).kind = "reset"
    /\ timers' = Tail(timers)
    /\ ev' = Ev("reset", "", "", 0)
    /\ gameInProgress' = TRUE
    /\ \E r \in [DOMAIN players -> RandPairs] :
         LET ps == [i \in DOMAIN players |-> ResetPlayer(players[i], r[i][1], r[i][2])]
         IN /\ players' = ps
            /\ out' = ResetBroadcasts(conn, ps, keys)
    /\ lifeDeaths' = [i \in Ids |-> 0]
    /\ lifeDied' = [i \in Ids |-> 0]
    /\ roundWins' = 0
    /\ winVictim' = ""
    /\ UNCHANGED <<conn, closed, keys, nLethal, client>>

\* socket.on('disconnect')
Disconnect(id) ==
    /\ id \in conn
    /\ conn' = conn \ {id}
    /\ closed' = closed \cup {id}
    /\ LET ps == Removed(players, id)
           ks == SelectSeq(keys, LAMBDA k : k # id)
       IN /\ players' = ps
          /\ keys' = ks
          /\ out' = << MsgPlayerLeft(conn', id), MsgScoreboard(conn', ps, ks) >>
    /\ timers' = Detach(timers, id)
    /\ ev' = Ev("disconnect", id, "", 0)
    /\ lifeDeaths' = [lifeDeaths EXCEPT ![id] = 0]
    /\ lifeDied' = [lifeDied EXCEPT ![id] = 0]
    /\ UNCHANGED <<gameInProgress, roundWins, winVictim, nLethal, client>>

Next ==
    \/ \E id \in Ids : Connect(id)
    \/ \E id \in Ids : Join(id, JoinPayloads[id])
    \/ \E id \in Ids, data \in MovePayloads : UpdateMovement(id, data)
    \/ \E id \in Ids : Shoot(id)
    \/ \E id, victimId \in Ids, damage \in Damages : Hit(id, victimId, damage)
    \/ RespawnFires
    \/ ResetFires
    \/ \E id \in Ids : Disconnect(id)

Spec == Init /\ [][Next]_vars

\* The timers of setTimeout fire: Node runs a callback once its delay has
\* passed, so a pending respawn or reset is not postponed forever.
SpecFair == Spec /\ WF_vars(RespawnFires) /\ WF_vars(ResetFires)

\* A round late in play: "a" has killed "b" KILLS_TO_WIN - 1 times, "b" has
\* just killed "a", whose respawn timer is pending.
InitLate ==
    /\ conn = {"a", "b"}
    /\ closed = {}
    /\ players = [i \in {"a", "b"} |->
                    IF i = "a"
                    THEN [NewPlayer(JoinPayloads["a"], 0, 99)
                             EXCEPT !.kills = KILLS_TO_WIN - 1, !.deaths = 1,
                                    !.hp = 0]
                    ELSE [NewPlayer(JoinPayloads["b"], 0, 99)
                             EXCEPT !.kills = 1, !.deaths = KILLS_TO_WIN - 1]]
    /\ keys = <<"a", "b">>
    /\ gameInProgress = TRUE
    /\ timers = << RespawnTimer("a") >>
    /\ out = <<>>
    /\ ev = Ev("start", "", "", 0)
    /\ lifeDeaths = [i \in Ids |-> IF i = "a" THEN 1 ELSE 0]
    /\ lifeDied = [i \in Ids |-> IF i = "a" THEN 1 ELSE 0]
    /\ roundWins = 0
    /\ winVictim = ""
    /\ nLethal = 0
    /\ ClientOff

\* both sockets are connected already, and an id is used by one connection
\* only: every handler but that of a new connection can run
NextLate ==
    \/ \E id \in Ids : Join(id, JoinPayloads[id])
    \/ \E id \in Ids, data \in MovePayloads : UpdateMovement(id, data)
    \/ \E id \in Ids : Shoot(id)
    \/ \E id, victimId \in Ids, damage \in Damages : Hit(id, victimId, damage)
    \/ RespawnFires
    \/ ResetFires
    \/ \E id \in Ids : Disconnect(id)

SpecLate == InitLate /\ [][NextLate]_vars

\* The server when every connection sends join at most once, as the client
\* of this repository does (main.ts sends it from the one enter click).
JoinOnce(id, data) == id \notin DOMAIN players /\ Join(id, data)

NextOnce ==
    \/ \E id \in Ids : Connect(id)
    \/ \E id \in Ids : JoinOnce(id, JoinPayloads[id])
    \/ \E id \in Ids, data \in MovePayloads : UpdateMovement(id, data)
    \/ \E id \in Ids : Shoot(id)
    \/ \E id, victimId \in Ids, damage \in Damages : Hit(id, victimId, damage)
    \/ RespawnFires
    \/ ResetFires
    \/ \E id \in Ids : Disconnect(id)

SpecOnce == Init /\ [][NextOnce]_vars

(* ----------------------- the scoreboard on its own --------------------- *)

\* buildScoreboard() is a function of the players object alone.  This second
\* specification starts from any players object of up to three sessions, in
\* any key order, and publishes its scoreboard once.
BoardIds == {"A", "B", "C"}
BoardKills == {1, 3}
BoardDeaths == {0, 1, 2}

\* the orders in which the keys S can sit in the players object
KeyOrders(S) ==
    {s \in [1..Cardinality(S) -> S] :
        \A i, j \in 1..Cardinality(S) : i # j => s[i] # s[j]}

\* a session with the given counts
BoardPlayer(kills, deaths) ==
    [NewPlayer(JoinPayloads["a"], 0, 99) EXCEPT !.kills = kills, !.deaths = deaths]

InitBoard ==
    /\ conn \in SUBSET BoardIds
    /\ closed = {}
    /\ \E k \in [conn -> BoardKills], d \in [conn -> BoardDeaths] :
         players = [i \in conn |-> BoardPlayer(k[i], d[i])]
    /\ keys \in KeyOrders(conn)
    /\ gameInProgress = TRUE
    /\ timers = <<>>
    /\ out = <<>>
    /\ ev = Ev("start", "", "", 0)
    /\ lifeDeaths = [i \in Ids |-> 0]
    /\ lifeDied = [i \in Ids |-> 0]
    /\ roundWins = 0
    /\ winVictim = ""
    /\ nLethal = 0
    /\ ClientOff

\* io.emit('scoreboardUpdate', buildScoreboard())
PublishScoreboard ==
    /\ ev.type = "start"
    /\ out' = << MsgScoreboard(conn, players, keys) >>
    /\ ev' = Ev("scoreboardUpdate", "", "", 0)
    /\ UNCHANGED <<conn, closed, players, keys, gameInProgress,
                   timers, hist, client>>

NextBoard == PublishScoreboard

SpecBoard == InitBoard /\ [][NextBoard]_vars

(* ------------------------- the client: numbers ------------------------- *)

\* Bounds of the exploration of the client (not program constants).
MaxBalls == 1           \* projectiles in flight at once
ClientFrames == 2       \* interpolation steps of an avatar between two snaps
MaxFrames == 6          \* the same, when interpolation is explored on its own

\* socket.id of the client that is modelled, and of the other players it sees
LocalId == "me"
RemoteIds == {"p", "q"}

\* The remote players whose movement, damage, death and respawn are
\* explored; the others join, shoot and leave.
Movers == {"p"}

\* A coordinate or an angle of the client is the fraction n / 10^k, kept in
\* lowest form (k as small as possible) so that equal values are equal records.
RECURSIVE Pow10(_)
Pow10(k) == IF k = 0 THEN 1 ELSE 10 * Pow10(k - 1)

RECURSIVE Norm(_, _)
Norm(n, k) == IF k > 0 /\ n % 10 = 0 THEN Norm(n \div 10, k - 1)
              ELSE [n |-> n, k |-> k]

Whole(i) == [n |-> i, k |-> 0]

\* the numerator of a over the denominator 10^k, for k >= a.k
Scaled(a, k) == a.n * Pow10(k - a.k)

\* a < b for fractions
Less(a, b) ==
    LET k == IF a.k > b.k THEN a.k ELSE b.k
    IN Scaled(a, k) < Scaled(b, k)

\* a - b for fractions
Minus(a, b) ==
    LET k == IF a.k > b.k THEN a.k ELSE b.k
    IN Norm(Scaled(a, k) - Scaled(b, k), k)

\* lerpFactor without the clamp to 1
lerpFactor_NoClamp(dt) == dt

\* Math.min(dt * 12, 1) in tenths, for dt in units of 1/120 s (dt * 12 is
\* then dt / 10)
lerpFactor(dt) == IF dt < 10 THEN dt ELSE 10

\* THREE lerp of one component: a += (t - a) * alpha, alpha in tenths
Lerp(a, t, alpha) ==
    LET k == IF a.k > t.k THEN a.k ELSE t.k
        an == Scaled(a, k)
        tn == Scaled(t, k)
    IN Norm(10 * an + (tn - an) * alpha, k + 1)

\* a vector with whole coordinates
Vec(x, y, z) == [x |-> Whole(x), y |-> Whole(y), z |-> Whole(z)]

\* Vector3.lerp(t, alpha)
LerpV(v, t, alpha) ==
    [x |-> Lerp(v.x, t.x, alpha), y |-> Lerp(v.y, t.y, alpha),
     z |-> Lerp(v.z, t.z, alpha)]

\* The orientations of the model are rotations about the vertical axis,
\* written as the angle in quarter turns: the quaternion (0, 0, 0, 1) is the
\* angle 0 and (0, 1, 0, 0) the angle 2.  Between two such rotations
\* Quaternion.slerp interpolates the angle linearly.
Identity == Whole(0)
Yaw(qx, qy, qz, qw) == IF qw = 1 THEN Whole(0) ELSE Whole(2)
Slerp(q, t, alpha) == Lerp(q, t, alpha)

\* the largest denominator exponent among the rendered values of an avatar
Exponent(r) ==
    LET ks == {r.meshPos.x.k, r.meshPos.y.k, r.meshPos.z.k, r.meshQuat.k}
    IN CHOOSE k \in ks : \A j \in ks : j <= k

(* ------------------------ the client: its entities --------------------- *)

\* the messages the server sends to the client, built as the server builds
\* them.  The join data of a remote player, the movement it reports, the hp
\* values a playerDamaged carries and the spawn point of a respawn:
RemoteJoin == NewPlayer(JoinPayloads["b"], 48, 53)
RemoteMoves ==
    { [x |-> 3, y |-> 0, z |-> -2, qx |-> 0, qy |-> 1, qz |-> 0, qw |-> 0,
       meshQx |-> 0, meshQy |-> 1, meshQz |-> 0, meshQw |-> 0] }
DamagedHps == {2, 0}
RespawnPoint == [x |-> SpawnCoord(50), y |-> 2, z |-> SpawnCoord(49)]

\* the other party of a hit on id, in the messages the client receives
Attacker(id) == IF id = "p" THEN LocalId ELSE "p"

\* the messages the client sends
MsgUpdateMovement == [type |-> "updateMovement"]
MsgShoot == [type |-> "shoot"]
MsgHit(victimId, damage) ==
    [type |-> "hit", victimId |-> victimId, damage |-> damage]

\* new RatEntity(scene, world, pos, name, opts, true) and the RemoteRat record
\* spawnRemoteRat builds around it: hp and dead are the entity's defaults
NewRemote(data) ==
    [hp |-> MAX_HP, dead |-> FALSE,
     meshPos |-> Vec(data.x, data.y, data.z), meshQuat |-> Identity,
     bodyPos |-> Vec(data.x, data.y, data.z),
     targetPos |-> Vec(data.x, data.y, data.z), targetMeshQuat |-> Identity,
     lastUpdate |-> "spawn"]

\* spawnRemoteRat(id, data)
spawnRemoteRat(rs, id, data) ==
    IF id \in DOMAIN rs THEN rs
    ELSE [i \in DOMAIN rs \cup {id} |-> IF i = id THEN NewRemote(data) ELSE rs[i]]

\* the loop of the currentPlayers handler over the entries ks of ps
RECURSIVE SpawnAll(_, _, _, _)
SpawnAll(rs, ps, ks, me) ==
    IF ks = <<>> THEN rs
    ELSE SpawnAll(IF Head(ks) = me THEN rs
                  ELSE spawnRemoteRat(rs, Head(ks), ps[Head(ks)]),
                  ps, Tail(ks), me)

\* RatEntity.takeDamage(amount), with die()
takeDamage(e, amount) ==
    IF e.dead THEN e
    ELSE [e EXCEPT !.hp = e.hp - amount, !.dead = (e.hp - amount <= 0)]

\* Targeted that writes the rendered transform as well
Targeted_Applied(r, m) ==
    [r EXCEPT !.targetPos = Vec(m.x, m.y, m.z),
              !.meshPos = Vec(m.x, m.y, m.z),
              !.targetMeshQuat = Yaw(m.meshQx, m.meshQy, m.meshQz, m.meshQw),
              !.lastUpdate = "playerMoved"]

\* the playerMoved handler on a known avatar
Targeted(r, m) ==
    [r EXCEPT !.targetPos = Vec(m.x, m.y, m.z),
              !.targetMeshQuat = Yaw(m.meshQx, m.meshQy, m.meshQz, m.meshQw),
              !.lastUpdate = "playerMoved"]

\* respawnRemoteRat that leaves the interpolation target where it was
respawnRemoteRat_NoTarget(r, m) ==
    [r EXCEPT !.dead = FALSE, !.hp = m.hp,
              !.bodyPos = Vec(m.x, m.y, m.z),
              !.meshPos = Vec(m.x, m.y, m.z), !.meshQuat = Identity]

\* respawnRemoteRat(remote, data)
respawnRemoteRat(r, m) ==
    [r EXCEPT !.dead = FALSE, !.hp = m.hp,
              !.bodyPos = Vec(m.x, m.y, m.z),
              !.meshPos = Vec(m.x, m.y, m.z), !.meshQuat = Identity,
              !.targetPos = Vec(m.x, m.y, m.z), !.targetMeshQuat = Identity]

\* removeRemoteRat that leaves the avatar in the map
removeRemoteRat_Keeps(rs, id) == rs

\* removeRemoteRat(id)
removeRemoteRat(rs, id) == [i \in DOMAIN rs \ {id} |-> rs[i]]

\* Interpolated without the check of the dead flag
Interpolated_Dead(r, alpha) ==
    LET pos == LerpV(r.meshPos, r.targetPos, alpha)
    IN [r EXCEPT !.meshPos = pos,
                 !.meshQuat = Slerp(r.meshQuat, r.targetMeshQuat, alpha),
                 !.bodyPos = pos]

\* one avatar in the loop of updateRemoteRats.  A dead avatar is left to its
\* ragdoll (entity.update), whose motion by the physics engine is not modelled.
Interpolated(r, alpha) ==
    IF r.dead THEN r
    ELSE LET pos == LerpV(r.meshPos, r.targetPos, alpha)
         IN [r EXCEPT !.meshPos = pos,
                      !.meshQuat = Slerp(r.meshQuat, r.targetMeshQuat, alpha),
                      !.bodyPos = pos]

\* updateRemoteRats(dt)
updateRemoteRats(rs, dt) ==
    [i \in DOMAIN rs |-> Interpolated(rs[i], lerpFactor(dt))]

\* what happens to one projectile in one CheeseGun.update: it flies on, its
\* lifetime ends, or its ray meets the body of an entity (head or not)
Outcomes ==
    {[kind |-> "fly", victim |-> "", head |-> FALSE],
     [kind |-> "expire", victim |-> "", head |-> FALSE]}
    \cup {[kind |-> "contact", victim |-> v, head |-> h] :
             v \in RemoteIds \cup {LocalId}, h \in BOOLEAN}

\* the contact o of the projectile b damages: the body is not the owner's,
\* belongs to an entity of the world and that entity is not dead
Damaging(r, rs, b, o) ==
    /\ o.kind = "contact"
    /\ o.victim # b.owner
    /\ \/ o.victim = LocalId /\ ~r.dead
       \/ o.victim \in DOMAIN rs /\ ~rs[o.victim].dead

\* onHitEntity that reports only the hits of the local player's projectiles
HitReports_OwnOnly(b, o) ==
    IF o.victim # LocalId /\ b.owner = LocalId
    THEN << MsgHit(o.victim, IF o.head THEN 3 ELSE 1) >> ELSE <<>>

\* cheeseGun.onHitEntity as main.ts sets it: a hit on a remote entity is
\* sent to the server
HitReports(b, o) ==
    IF o.victim # LocalId
    THEN << MsgHit(o.victim, IF o.head THEN 3 ELSE 1) >> ELSE <<>>

\* CheeseGun.update over the projectiles bs[1..i], from the last to the first,
\* with the outcomes o: the local entity, the projectiles left and the
\* messages sent
RECURSIVE GunUpdate(_, _, _, _, _)
GunUpdate(r, rs, bs, o, i) ==
    IF i = 0 THEN [rat |-> r, balls |-> bs, sent |-> <<>>]
    ELSE LET hit == Damaging(r, rs, bs[i], o[i])
             gone == hit \/ o[i].kind = "expire"
             r1 == IF hit /\ o[i].victim = LocalId
                   THEN takeDamage(r, IF o[i].head THEN 3 ELSE 1) ELSE r
             rest == GunUpdate(r1, rs,
                               IF gone
                               THEN SubSeq(bs, 1, i - 1) \o SubSeq(bs, i + 1, Len(bs))
                               ELSE bs,
                               o, i - 1)
         IN [rest EXCEPT !.sent = (IF hit THEN HitReports(bs[i], o[i]) ELSE <<>>)
                                  \o @]

(* ------------------------- the client: its handlers -------------------- *)

\* The client specification: one client ("me") from the moment the player has
\* entered the game (main.ts: the local entity, the CheeseGun and the
\* NetworkManager exist).  The server's state is the session map at the time
\* the client's join is processed: another player "p" is there, alive or
\* dead and awaiting its respawn.  The messages that follow are any the
\* server can send to this client.
InitClient ==
    /\ conn = {"p", LocalId}
    /\ closed = {}
    /\ \E hp \in {MAX_HP, 0} :
         players = [i \in {"p", LocalId} |->
                      IF i = "p" THEN [RemoteJoin EXCEPT !.hp = hp]
                      ELSE NewPlayer(JoinPayloads["a"], 50, 49)]
    /\ keys = <<"p", LocalId>>
    /\ gameInProgress = TRUE
    /\ timers = <<>>
    /\ out = <<>>
    /\ ev = Ev("start", "", "", 0)
    /\ lifeDeaths = [i \in Ids |-> 0]
    /\ lifeDied = [i \in Ids |-> 0]
    /\ roundWins = 0
    /\ winVictim = ""
    /\ nLethal = 0
    /\ ClientOff

\* socket.on('connect')
OnConnect ==
    /\ myId = ""
    /\ myId' = LocalId
    /\ out' = <<>>
    /\ ev' = Ev("connect", LocalId, "", 0)
    /\ UNCHANGED <<server, net, rat, remoteRats, balls>>

\* socket.on('currentPlayers'): the snapshot the server sends on join
OnCurrentPlayers ==
    /\ myId # ""
    /\ LET m == MsgCurrentPlayers(myId, players)
       IN remoteRats' = SpawnAll(remoteRats, m.players, keys, myId)
    /\ out' = <<>>
    /\ ev' = Ev("currentPlayers", myId, "", 0)
    /\ UNCHANGED <<server, net, myId, rat, balls>>

\* socket.on('playerJoined')
OnPlayerJoined(id) ==
    /\ myId # ""
    /\ LET m == MsgPlayerJoined(conn, id, RemoteJoin)
       IN remoteRats' = IF m.id = myId THEN remoteRats
                        ELSE spawnRemoteRat(remoteRats, m.id, m.player)
    /\ out' = <<>>
    /\ ev' = Ev("playerJoined", id, "", 0)
    /\ UNCHANGED <<server, net, myId, rat, balls>>

\* socket.on('playerMoved')
OnPlayerMoved(id, data) ==
    /\ myId # ""
    /\ LET m == MsgPlayerMoved(conn, id, data)
       IN remoteRats' = IF m.id \notin DOMAIN remoteRats THEN remoteRats
                        ELSE [remoteRats EXCEPT ![m.id] = Targeted(@, m)]
    /\ out' = <<>>
    /\ ev' = Ev("playerMoved", id, "", 0)
    /\ UNCHANGED <<server, net, myId, rat, balls>>

\* socket.on('playerShot'): the shot is replayed with the avatar as its owner
OnPlayerShot(id) ==
    /\ myId # ""
    /\ LET m == MsgPlayerShot(conn, id)
       IN IF m.shooterId \notin DOMAIN remoteRats
          THEN balls' = balls
          ELSE /\ Len(balls) < MaxBalls
               /\ balls' = Append(balls, [owner |-> m.shooterId])
    /\ out' = <<>>
    /\ ev' = Ev("playerShot", id, "", 0)
    /\ UNCHANGED <<server, net, myId, rat, remoteRats>>

\* socket.on('playerDamaged'), with the onPlayerDamaged callback of main.ts
OnPlayerDamaged(id, hp) ==
    /\ myId # ""
    /\ LET m == MsgPlayerDamaged(conn, id, hp, Attacker(id))
       IN /\ remoteRats' = IF m.id \notin DOMAIN remoteRats THEN remoteRats
                           ELSE [remoteRats EXCEPT ![m.id].hp = m.hp]
          /\ rat' = IF m.id = myId THEN [rat EXCEPT !.hp = m.hp] ELSE rat
    /\ out' = <<>>
    /\ ev' = Ev("playerDamaged", id, "", 0)
    /\ UNCHANGED <<server, net, myId, balls>>

\* socket.on('playerDied'); the onPlayerDied callback of main.ts only shows
\* the respawn countdown
OnPlayerDied(id) ==
    /\ myId # ""
    /\ LET m == MsgPlayerDied(conn, id, Attacker(id), "", "")
       IN remoteRats' = IF m.victimId \notin DOMAIN remoteRats THEN remoteRats
                        ELSE [remoteRats EXCEPT ![m.victimId] = takeDamage(@, 999)]
    /\ out' = <<>>
    /\ ev' = Ev("playerDied", id, "", 0)
    /\ UNCHANGED <<server, net, myId, rat, balls>>

\* socket.on('playerRespawn'), with the onLocalRespawn callback of main.ts
OnPlayerRespawn(id) ==
    /\ myId # ""
    /\ LET m == MsgPlayerRespawn(conn, id, RespawnPoint.x, RespawnPoint.y,
                                 RespawnPoint.z, MAX_HP)
       IN IF m.id = myId
          THEN /\ rat' = [rat EXCEPT !.dead = FALSE, !.hp = m.hp]
               /\ remoteRats' = remoteRats
          ELSE /\ rat' = rat
               /\ remoteRats' = IF m.id \notin DOMAIN remoteRats THEN remoteRats
                                ELSE [remoteRats EXCEPT
                                        ![m.id] = respawnRemoteRat(@, m)]
    /\ out' = <<>>
    /\ ev' = Ev("playerRespawn", id, "", 0)
    /\ UNCHANGED <<server, net, myId, balls>>

\* socket.on('playerLeft')
OnPlayerLeft(id) ==
    /\ myId # ""
    /\ LET m == MsgPlayerLeft(conn, id)
       IN remoteRats' = removeRemoteRat(remoteRats, m.id)
    /\ out' = <<>>
    /\ ev' = Ev("playerLeft", id, "", 0)
    /\ UNCHANGED <<server, net, myId, rat, balls>>

\* the mousedown listener of main.ts: the local player fires
MouseDown ==
    /\ ~rat.dead
    /\ Len(balls) < MaxBalls
    /\ balls' = Append(balls, [owner |-> LocalId])
    /\ out' = << MsgShoot >>
    /\ ev' = Ev("mousedown", LocalId, "", 0)
    /\ UNCHANGED <<server, net, myId, rat, remoteRats>>

\* MovementSent without the check of the dead flag
MovementSent_Dead(r, due) == IF due THEN << MsgUpdateMovement >> ELSE <<>>

\* animate: if (networkManager && !rat.entity.dead) sendMovement(rat.entity),
\* where due says that the send interval has passed
MovementSent(r, due) ==
    IF ~r.dead /\ due THEN << MsgUpdateMovement >> ELSE <<>>

\* animate(), one frame of dt: sendMovement (due or throttled), then
\* cheeseGun.update with the outcomes o of the projectiles, then
\* updateRemoteRats
Animate(dt, due, o) ==
    /\ LET g == GunUpdate(rat, remoteRats, balls, o, Len(balls))
           rs == updateRemoteRats(remoteRats, dt)
       IN /\ \A i \in DOMAIN rs : Exponent(rs[i]) <= ClientFrames
          /\ rat' = g.rat
          /\ balls' = g.balls
          /\ remoteRats' = rs
          /\ out' = MovementSent(rat, due) \o g.sent
    /\ ev' = Ev("animate", LocalId, "", 0)
    /\ UNCHANGED <<server, net, myId>>

\* dt of a frame, in units of 1/120 s: main.ts caps it at 0.05 s, the
\* value explored here
AnimateDts == {6}

NextClient ==
    \/ OnConnect
    \/ OnCurrentPlayers
    \/ \E id \in RemoteIds : OnPlayerJoined(id)
    \/ \E id \in Movers, data \in RemoteMoves : OnPlayerMoved(id, data)
    \/ \E id \in RemoteIds : OnPlayerShot(id)
    \/ \E id \in Movers \cup {LocalId}, hp \in DamagedHps : OnPlayerDamaged(id, hp)
    \/ \E id \in Movers \cup {LocalId} : OnPlayerDied(id)
    \/ \E id \in Movers \cup {LocalId} : OnPlayerRespawn(id)
    \/ \E id \in RemoteIds : OnPlayerLeft(id)
    \/ MouseDown
    \/ \E dt \in AnimateDts, due \in BOOLEAN, o \in [1..Len(balls) -> Outcomes] :
         Animate(dt, due, o)

SpecClient == InitClient /\ [][NextClient]_vars

(* -------------------- the interpolation on its own --------------------- *)

\* updateRemoteRats is a function of the avatars and dt.  This specification
\* starts with one living avatar rendered away from its target, on either
\* side of it on the x axis, and runs frames of several lengths with the
\* target left alone.
LerpCoords == {-2, 0, 3}

\* dt of a frame, in units of 1/120 s; the last makes dt * 12 exceed 1
LerpDts == {5, 6, 12}

LerpAvatar(x, tx, tq) ==
    [hp |-> MAX_HP, dead |-> FALSE,
     meshPos |-> Vec(x, 2, 1), meshQuat |-> Identity,
     bodyPos |-> Vec(x, 2, 1),
     targetPos |-> Vec(tx, 2, -1), targetMeshQuat |-> Whole(tq),
     lastUpdate |-> "playerMoved"]

InitLerp ==
    /\ conn = {LocalId}
    /\ closed = {}
    /\ players = NoPlayers
    /\ keys = <<>>
    /\ gameInProgress = TRUE
    /\ timers = <<>>
    /\ out = <<>>
    /\ ev = Ev("start", "", "", 0)
    /\ lifeDeaths = [i \in Ids |-> 0]
    /\ lifeDied = [i \in Ids |-> 0]
    /\ roundWins = 0
    /\ winVictim = ""
    /\ nLethal = 0
    /\ myId = LocalId
    /\ rat = [hp |-> MAX_HP, dead |-> FALSE]
    /\ balls = <<>>
    /\ now = 0
    /\ lastSendTime = 0
    /\ inbox = <<>>
    /\ \E x \in LerpCoords, tx \in LerpCoords, tq \in {0, 2} :
         remoteRats = [i \in {"p"} |-> LerpAvatar(x, tx, tq)]

\* updateRemoteRats(dt), as a frame calls it
UpdateRemoteRats(dt) ==
    /\ LET rs == updateRemoteRats(remoteRats, dt)
       IN /\ \A i \in DOMAIN rs : Exponent(rs[i]) <= MaxFrames
          /\ remoteRats' = rs
    /\ out' = <<>>
    /\ ev' = [type |-> "updateRemoteRats", id |-> "", victimId |-> "",
              damage |-> 0, dt |-> dt]
    /\ UNCHANGED <<server, net, myId, rat, balls>>

NextLerp == \E dt \in LerpDts : UpdateRemoteRats(dt)

\* Frames keep coming: animate() requests the next frame each time it runs.
SpecLerp == InitLerp /\ [][NextLerp]_vars /\ WF_vars(NextLerp)

(* ------------------- the client: throttled movement -------------------- *)

\* NetworkManager.ts: SEND_RATE_HZ and SEND_INTERVAL, in milliseconds
SEND_RATE_HZ == 25
SEND_INTERVAL == 1000 \div SEND_RATE_HZ

\* performance.now() in whole milliseconds; the clock never runs backwards.
\* The time between two calls of sendMovement: the render loop may call it
\* again within a millisecond, after a frame, or just before, at and after
\* the send interval.
FrameGaps == {1, 16, 39, 40, 41}

\* the clock at the first frame after the page has loaded
StartTimes == {0, 25}

\* the clock of a behaviour stops here
MaxNow == 130

\* sendMovement that does not record the time of the emission
sendMovement_NoStamp(t, last) ==
    IF t - last < SEND_INTERVAL
    THEN [sent |-> <<>>, last |-> last]
    ELSE [sent |-> << MsgUpdateMovement >>, last |-> last]

\* sendMovement(entity) called at time t with lastSendTime = last: what is
\* emitted and the new lastSendTime
sendMovement(t, last) ==
    IF t - last < SEND_INTERVAL
    THEN [sent |-> <<>>, last |-> last]
    ELSE [sent |-> << MsgUpdateMovement >>, last |-> t]

\* the client has entered the game as the only player; lastSendTime is 0 as
\* constructed
InitSend ==
    /\ conn = {LocalId}
    /\ closed = {}
    /\ players = [i \in {LocalId} |-> NewPlayer(JoinPayloads["a"], 50, 49)]
    /\ keys = << LocalId >>
    /\ gameInProgress = TRUE
    /\ timers = <<>>
    /\ out = <<>>
    /\ ev = Ev("start", "", "", 0)
    /\ lifeDeaths = [i \in Ids |-> 0]
    /\ lifeDied = [i \in Ids |-> 0]
    /\ roundWins = 0
    /\ winVictim = ""
    /\ nLethal = 0
    /\ myId = LocalId
    /\ rat = [hp |-> MAX_HP, dead |-> FALSE]
    /\ remoteRats = NoRats
    /\ balls = <<>>
    /\ now \in StartTimes
    /\ lastSendTime = 0
    /\ inbox = <<>>

\* the render loop calls sendMovement, d milliseconds after the call before.
\* ev keeps the latest emission: its time, and the time of the one before it.
Frame(d) ==
    /\ now + d <= MaxNow
    /\ now' = now + d
    /\ LET s == sendMovement(now', lastSendTime)
       IN /\ lastSendTime' = s.last
          /\ out' = s.sent
          /\ ev' = IF s.sent = <<>> THEN ev
                   ELSE [type |-> "updateMovement", at |-> now',
                         prev |-> IF ev.type = "updateMovement" THEN ev.at
                                  ELSE Undefined]
    /\ UNCHANGED <<server, myId, rat, remoteRats, balls, inbox>>

NextSend == \E d \in FrameGaps : Frame(d)

SpecSend == InitSend /\ [][NextSend]_vars

(* ----------------------- the client and the roster --------------------- *)

\* the sockets of this part: the client under study and two other players
RosterIds == {LocalId} \cup RemoteIds

\* messages the socket of the client holds at most before the client
\* handles one
MaxInbox == 4

\* the server right after start, the client's page not yet connected
InitRoster ==
    /\ conn = {}
    /\ closed = {}
    /\ players = NoPlayers
    /\ keys = <<>>
    /\ gameInProgress = TRUE
    /\ timers = <<>>
    /\ out = <<>>
    /\ ev = Ev("start", "", "", 0)
    /\ lifeDeaths = [i \in RosterIds |-> 0]
    /\ lifeDied = [i \in RosterIds |-> 0]
    /\ roundWins = 0
    /\ winVictim = ""
    /\ nLethal = 0
    /\ ClientOff

\* what the client receives of a message: the snapshot of currentPlayers is
\* an object, whose entries come in the key order of the players object
Received(m) ==
    IF m.type = "currentPlayers"
    THEN [type |-> m.type, players |-> m.players, keys |-> keys]
    ELSE m

\* the messages of out addressed to the client
RECURSIVE Mine(_)
Mine(ms) ==
    IF ms = <<>> THEN <<>>
    ELSE IF LocalId \in Head(ms).to
         THEN << Received(Head(ms)) >> \o Mine(Tail(ms))
         ELSE Mine(Tail(ms))

\* socket.io carries what the server has emitted: the messages for the
\* client join its socket's queue in the order sent
Transport ==
    /\ out # <<>>
    /\ Len(inbox) + Len(Mine(out)) <= MaxInbox
    /\ inbox' = inbox \o Mine(out)
    /\ out' = <<>>
    /\ UNCHANGED <<server, ev, myId, rat, remoteRats, balls, now, lastSendTime>>

\* socket.on('connect') of the client, the first event of its socket
Connected ==
    /\ LocalId \in conn
    /\ myId = ""
    /\ myId' = LocalId
    /\ ev' = Ev("connect", LocalId, "", 0)
    /\ UNCHANGED <<server, net, out, rat, remoteRats, balls>>

\* the handlers of currentPlayers, playerJoined and playerLeft applied to
\* the map rs of a client with id me; no other handler adds or removes a key
Handle(rs, me, m) ==
    CASE m.type = "currentPlayers" -> SpawnAll(rs, m.players, m.keys, me)
      [] m.type = "playerJoined" ->
            IF m.id = me THEN rs ELSE spawnRemoteRat(rs, m.id, m.player)
      [] m.type = "playerLeft" -> removeRemoteRat(rs, m.id)
      [] OTHER -> rs

\* the client handles the next message of its socket; ev keeps the latest
\* handler that works on remoteRats, with the keys of the map before it ran
Receive ==
    /\ myId # ""
    /\ inbox # <<>>
    /\ LET m == Head(inbox)
       IN /\ remoteRats' = Handle(remoteRats, myId, m)
          /\ ev' = IF m.type = "scoreboardUpdate" THEN ev
                   ELSE [type |-> m.type,
                         id |-> IF m.type = "currentPlayers" THEN myId ELSE m.id,
                         before |-> DOMAIN remoteRats]
    /\ inbox' = Tail(inbox)
    /\ UNCHANGED <<server, out, myId, rat, balls, now, lastSendTime>>

\* The server handles an event once what it emitted for the one before is on
\* its way.  Each page joins once (main.ts: hasJoined); the client under
\* study stays, the other players may leave.
NextRoster ==
    \/ \E id \in RosterIds : out = <<>> /\ Connect(id)
    \/ \E id \in RosterIds :
          out = <<>> /\ JoinOnce(id, JoinPayloads[IF id = LocalId THEN "a" ELSE "b"])
    \/ \E id \in RemoteIds : out = <<>> /\ Disconnect(id)
    \/ Transport
    \/ Connected
    \/ Receive

SpecRoster == InitRoster /\ [][NextRoster]_vars

(* ------------------------------ properties ----------------------------- *)

\* the step processes a hit event
HitStep == ev'.type = "hit"

\* the hit the step processes passes every early return of the handler
HitApplied ==
    /\ HitStep
    /\ gameInProgress
    /\ ev'.id \in DOMAIN players
    /\ ev'.victimId \in DOMAIN players
    /\ players[ev'.victimId].hp > 0

\* ... and takes the victim's hp to 0 or below
LethalHit == HitApplied /\ players[ev'.victimId].hp - ev'.damage <= 0

\* ... and leaves the victim's hp above 0
NonLethalHit == HitApplied /\ players[ev'.victimId].hp - ev'.damage > 0

\* the scoreboard board has one row per session of ps, with its counts
BoardReflects(board, ps) ==
    /\ Len(board) = Cardinality(DOMAIN ps)
    /\ {board[k].id : k \in 1..Len(board)} = DOMAIN ps
    /\ \A k \in 1..Len(board) :
         /\ board[k].kills = ps[board[k].id].kills
         /\ board[k].deaths = ps[board[k].id].deaths

\* C1: between one spawn of a session (join, scheduled respawn or round reset)
\* and its next respawn, its death count rises by at most 1 and at most one
\* playerDied names it, whatever hits are processed in between.
C1_ExactlyOnceDeath ==
    \A i \in Ids : lifeDeaths[i] <= 1 /\ lifeDied[i] <= 1

\* C1 witness: a second lethal hit (damage 3) of a live shooter was processed
\* against another session that already died in this life and whose respawn
\* timer is still pending.
C1_Witness ==
    /\ ev.type = "hit" /\ ev.damage = 3
    /\ gameInProgress
    /\ ev.id \in DOMAIN players
    /\ ev.id # ev.victimId
    /\ players[ev.id].hp > 0
    /\ ev.victimId \in DOMAIN players
    /\ lifeDeaths[ev.victimId] = 1
    /\ lifeDied[ev.victimId] = 1
    /\ \E k \in 1..Len(timers) : timers[k] = RespawnTimer(ev.victimId)
    /\ out = <<>>

\* C2: at most one gameWon is broadcast between two resetGame runs, and from
\* the win until resetGame runs no hit event changes any session or causes
\* any broadcast.
C2_WinOnce ==
    /\ [](roundWins <= 1)
    /\ [][(roundWins >= 1 /\ HitStep) => (players' = players /\ out' = <<>>)]_vars

\* C2 witness: during the win screen a hit between two sessions with a live
\* victim was processed and dropped.
C2_Witness ==
    /\ roundWins = 1
    /\ ~gameInProgress
    /\ \E i \in DOMAIN players : players[i].kills >= KILLS_TO_WIN
    /\ ev.type = "hit"
    /\ ev.id \in DOMAIN players
    /\ ev.victimId \in DOMAIN players
    /\ players[ev.victimId].hp > 0
    /\ out = <<>>

\* C3: a hit processed while the round is inactive, or against a victim whose
\* hp is already <= 0, changes no session and not the round state, broadcasts
\* nothing and schedules no timer.
C3_InvalidHitsDropped ==
    [][(/\ HitStep
        /\ \/ ~gameInProgress
           \/ /\ ev'.victimId \in DOMAIN players
              /\ players[ev'.victimId].hp <= 0)
       => (/\ players' = players
           /\ keys' = keys
           /\ gameInProgress' = gameInProgress
           /\ timers' = timers
           /\ out' = <<>>)]_vars

\* C3 witness: in an active round another session's hit was processed
\* against a victim whose recorded hp is below 0, and dropped.
C3_Witness ==
    /\ ev.type = "hit"
    /\ gameInProgress
    /\ ev.id \in DOMAIN players
    /\ ev.victimId \in DOMAIN players
    /\ ev.id # ev.victimId
    /\ players[ev.victimId].hp < 0
    /\ out = <<>>

C5_RespawnAfterDisconnect ==
    [][(ev'.type = "respawn" /\ ev'.id \notin DOMAIN players)
       => (players' = players /\ keys' = keys /\ out' = <<>>)]_vars

\* C5 witness: the respawn timer of a disconnected victim has fired while
\* another client is still connected.
C5_Witness ==
    /\ ev.type = "respawn"
    /\ ev.id \in closed
    /\ ev.id \notin DOMAIN players
    /\ conn # {}
    /\ out = <<>>

\* C6: every recorded hp, and every hp carried by a playerDamaged or
\* playerRespawn broadcast, is in 0..MAX_HP.
C6_HpInRange ==
    /\ \A i \in DOMAIN players : players[i].hp \in 0..MAX_HP
    /\ \A k \in 1..Len(out) :
         out[k].type \in {"playerDamaged", "playerRespawn"}
            => out[k].hp \in 0..MAX_HP

\* C7: a lethal hit adds exactly 1 to the shooter's kills and to the victim's
\* deaths, broadcasts to all a playerDied with both ids and both names, then
\* a scoreboardUpdate with the new counts, and then either starts the win
\* sequence (shooter's kills >= KILLS_TO_WIN) or schedules one respawn timer
\* for the victim.
C7_LethalHit ==
    [][LethalHit =>
        LET s == ev'.id
            v == ev'.victimId
        IN /\ DOMAIN players' = DOMAIN players
           /\ \A i \in DOMAIN players :
                /\ players'[i].kills = players[i].kills + (IF i = s THEN 1 ELSE 0)
                /\ players'[i].deaths = players[i].deaths + (IF i = v THEN 1 ELSE 0)
           /\ Len(out') >= 3
           /\ out'[2] = [type |-> "playerDied", to |-> conn, victimId |-> v,
                         killerId |-> s, killerName |-> players[s].name,
                         victimName |-> players[v].name]
           /\ out'[3].type = "scoreboardUpdate"
           /\ out'[3].to = conn
           /\ BoardReflects(out'[3].board, players')
           /\ IF players'[s].kills >= KILLS_TO_WIN
              THEN /\ ~gameInProgress'
                   /\ Len(out') = 4 /\ out'[4].type = "gameWon"
                   /\ timers' = Append(timers, ResetTimer)
              ELSE /\ gameInProgress'
                   /\ Len(out') = 3
                   /\ timers' = Append(timers, RespawnTimer(v))
      ]_vars

\* C7 witness: a lethal hit of one session on another was processed in a
\* round that goes on: the death and the scoreboard were broadcast and the
\* victim's respawn timer is the last one scheduled.
C7_Witness ==
    /\ ev.type = "hit"
    /\ ev.id # ev.victimId
    /\ gameInProgress
    /\ Len(out) = 3 /\ out[2].type = "playerDied" /\ out[3].type = "scoreboardUpdate"
    /\ ev.id \in DOMAIN players /\ players[ev.id].kills = 1
    /\ ev.victimId \in DOMAIN players /\ players[ev.victimId].deaths = 1
    /\ timers # <<>> /\ timers[Len(timers)] = RespawnTimer(ev.victimId)

\* C8: a non-lethal hit lowers only the victim's hp, by the damage, broadcasts
\* one playerDamaged with the new hp to all clients (shooter and victim
\* included) and nothing else, and leaves every other field of every session,
\* the round state and the timers unchanged.
C8_NonLethalHit ==
    [][NonLethalHit =>
        LET s == ev'.id
            v == ev'.victimId
            hp == players[v].hp - ev'.damage
        IN /\ players' = [players EXCEPT ![v].hp = hp]
           /\ out' = << [type |-> "playerDamaged", to |-> conn, id |-> v,
                         hp |-> hp, attackerId |-> s] >>
           /\ {s, v} \subseteq out'[1].to
           /\ keys' = keys
           /\ gameInProgress' = gameInProgress
           /\ timers' = timers
      ]_vars

\* C8 witness: a victim that never died was hit for 1 a second time by
\* another session: its hp is 1 and the broadcast carries hp 1.
C8_Witness ==
    /\ ev.type = "hit" /\ ev.damage = 1
    /\ ev.id # ev.victimId
    /\ ev.victimId \in DOMAIN players
    /\ players[ev.victimId].hp = 1
    /\ players[ev.victimId].deaths = 0
    /\ Len(out) = 1 /\ out[1].type = "playerDamaged" /\ out[1].hp = 1
    /\ out[1].id = ev.victimId /\ out[1].attackerId = ev.id

\* C9: a lethal hit that brings the shooter's kills to KILLS_TO_WIN makes the
\* round inactive, broadcasts gameWon with the winner's name and kills to
\* all, schedules exactly one round-reset timer and no respawn timer; and
\* the hp of that hit's victim stays <= 0 until resetGame runs.
C9_WinSequence ==
    [][/\ (LethalHit /\ players[ev'.id].kills + 1 >= KILLS_TO_WIN)
          => /\ ~gameInProgress'
             /\ out'[Len(out')] = [type |-> "gameWon", to |-> conn,
                                   winnerId |-> ev'.id,
                                   winnerName |-> players[ev'.id].name,
                                   kills |-> players'[ev'.id].kills]
             /\ timers' = Append(timers, ResetTimer)
             /\ Pending(timers', "reset") = 1
       /\ (/\ winVictim \in DOMAIN players
           /\ winVictim \in DOMAIN players'
           /\ ev'.type # "reset")
          => players'[winVictim].hp <= 0
      ]_vars

\* C10: when a respawn timer fires for a victim that has a session, the
\* session's hp becomes MAX_HP and its position a spawn point (x, z in
\* [-50, 50), y = 2), its other fields are unchanged, and one playerRespawn
\* with that id, that position and hp MAX_HP goes to every connected client.
C10_RespawnRestores ==
    [][(ev'.type = "respawn" /\ ev'.id \in DOMAIN players)
       => LET i == ev'.id
              p == players[i]
              q == players'[i]
          IN /\ q.hp = MAX_HP
             /\ q.x \in -50..49 /\ q.z \in -50..49 /\ q.y = 2
             /\ q = [p EXCEPT !.hp = q.hp, !.x = q.x, !.y = q.y, !.z = q.z]
             /\ out' = << [type |-> "playerRespawn", to |-> conn, id |-> i,
                           x |-> q.x, y |-> q.y, z |-> q.z, hp |-> MAX_HP] >>
      ]_vars

\* the step runs resetGame
ResetStep == ev'.type = "reset"

\* C11: after resetGame runs, whatever the number of sessions (none, one or
\* several), every session has kills = 0, deaths = 0 and hp = MAX_HP, and the
\* round is active again.
C11_ResetZeroes ==
    [][ResetStep
       => /\ gameInProgress'
          /\ \A i \in DOMAIN players' :
               /\ players'[i].kills = 0
               /\ players'[i].deaths = 0
               /\ players'[i].hp = MAX_HP
      ]_vars

\* resetGame has just run over two sessions, the winner and the player whose
\* death won the round
C11_Witness ==
    /\ ev.type = "reset"
    /\ gameInProgress
    /\ Cardinality(DOMAIN players) = 2
    /\ \A i \in DOMAIN players :
         players[i].kills = 0 /\ players[i].deaths = 0 /\ players[i].hp = MAX_HP

\* C12: resetGame changes only kills, deaths, hp and the position of each
\* session: the set of session ids and their key order, and every session's
\* name, hatType, hatColor, furColor and coatColor (and its orientation) are
\* the same before and after it runs.
C12_ResetFrame ==
    [][ResetStep
       => /\ DOMAIN players' = DOMAIN players
          /\ keys' = keys
          /\ \A i \in DOMAIN players :
               LET p == players[i]
                   q == players'[i]
               IN /\ q.name = p.name
                  /\ q.hatType = p.hatType
                  /\ q.hatColor = p.hatColor
                  /\ q.furColor = p.furColor
                  /\ q.coatColor = p.coatColor
                  /\ q = [p EXCEPT !.kills = q.kills, !.deaths = q.deaths,
                                   !.hp = q.hp, !.x = q.x, !.y = q.y, !.z = q.z]
      ]_vars

\* resetGame has just run over a session with a chosen name and appearance
\* that had moved before: it is back at a spawn point, turned as it was
C12_Witness ==
    /\ ev.type = "reset"
    /\ \E i \in DOMAIN players :
         /\ players[i].name = "Rex"
         /\ players[i].hatType = "cowboy"
         /\ players[i].coatColor = 9
         /\ players[i].qy = 1
         /\ players[i].y = 2

\* C13: resetGame sends to every connected client exactly one playerRespawn
\* per existing session (with hp = MAX_HP), then one gameReset, then one
\* scoreboardUpdate whose rows all have kills = 0 and deaths = 0, in that
\* order, and nothing else.
C13_ResetBroadcastOrder ==
    [][ResetStep
       => LET n == Cardinality(DOMAIN players)
          IN /\ Len(out') = n + 2
             /\ \A k \in 1..Len(out') : out'[k].to = conn
             /\ \A k \in 1..n :
                  /\ out'[k].type = "playerRespawn"
                  /\ out'[k].hp = MAX_HP
             /\ \A i \in DOMAIN players :
                  Cardinality({k \in 1..n : out'[k].id = i}) = 1
             /\ out'[n + 1].type = "gameReset"
             /\ out'[n + 2].type = "scoreboardUpdate"
             /\ Len(out'[n + 2].board) = n
             /\ \A k \in 1..n :
                  /\ out'[n + 2].board[k].kills = 0
                  /\ out'[n + 2].board[k].deaths = 0
      ]_vars

\* resetGame has just run over two sessions with both clients connected: two
\* playerRespawn, gameReset and the scoreboard went out
C13_Witness ==
    /\ ev.type = "reset"
    /\ conn = {"a", "b"}
    /\ Len(out) = 4
    /\ out[1].type = "playerRespawn" /\ out[2].type = "playerRespawn"
    /\ out[1].id # out[2].id
    /\ out[3].type = "gameReset"
    /\ out[4].type = "scoreboardUpdate"

\* C14: the round is inactive exactly while the round reset timer is pending:
\* in every state gameInProgress is false if and only if exactly one reset
\* timer is pending, and there is never more than one.
C14_InactiveIffResetPending ==
    /\ Pending(timers, "reset") <= 1
    /\ (~gameInProgress) <=> (Pending(timers, "reset") = 1)

\* the win screen: the round is inactive and its reset timer is pending,
\* after a hit the server dropped for that reason
C14_Witness ==
    /\ ~gameInProgress
    /\ Pending(timers, "reset") = 1
    /\ ev.type = "hit"
    /\ out = <<>>

\* C15: for a session present before and after a step, kills and deaths do
\* not decrease, except in the step that runs resetGame; this for every
\* event, a second join on a connection that has a session included.
C15_CountsMonotone ==
    [][~ResetStep
       => \A i \in DOMAIN players \cap DOMAIN players' :
            /\ players'[i].kills >= players[i].kills
            /\ players'[i].deaths >= players[i].deaths
      ]_vars

\* the ids of the rows of a scoreboard, in order
BoardOrder(board) == [k \in 1..Len(board) |-> board[k].id]

\* the place of id in the key order ks
KeyIndex(ks, id) == CHOOSE k \in 1..Len(ks) : ks[k] = id

\* C16: the scoreboard has exactly one row {id, name, kills, deaths} per
\* session and no other, ordered by kills descending, ties broken by deaths
\* ascending; rows equal in both keep the key order of the players object
\* (which fixes the result); for kills 3, 3, 1 and deaths 2, 1, 0 of players
\* A, B, C the order is B, A, C.
C16_Scoreboard ==
    ev.type = "scoreboardUpdate"
    => LET board == out[1].board
           n == Len(board)
       IN /\ n = Cardinality(DOMAIN players)
          /\ {board[k].id : k \in 1..n} = DOMAIN players
          /\ \A k \in 1..n :
               board[k] = [id |-> board[k].id,
                           name |-> players[board[k].id].name,
                           kills |-> players[board[k].id].kills,
                           deaths |-> players[board[k].id].deaths]
          /\ \A k \in 1..(n - 1) :
               \/ board[k].kills > board[k + 1].kills
               \/ /\ board[k].kills = board[k + 1].kills
                  /\ board[k].deaths < board[k + 1].deaths
               \/ /\ board[k].kills = board[k + 1].kills
                  /\ board[k].deaths = board[k + 1].deaths
                  /\ KeyIndex(keys, board[k].id) < KeyIndex(keys, board[k + 1].id)
          /\ (/\ DOMAIN players = BoardIds
              /\ players["A"].kills = 3 /\ players["A"].deaths = 2
              /\ players["B"].kills = 3 /\ players["B"].deaths = 1
              /\ players["C"].kills = 1 /\ players["C"].deaths = 0)
             => BoardOrder(board) = <<"B", "A", "C">>

\* the scoreboard of the example was published, from the players object
\* holding A, B, C in that key order: the tie on 3 kills put B before A
C16_Witness ==
    /\ ev.type = "scoreboardUpdate"
    /\ keys = <<"A", "B", "C">>
    /\ players["A"].kills = 3 /\ players["A"].deaths = 2
    /\ players["B"].kills = 3 /\ players["B"].deaths = 1
    /\ players["C"].kills = 1 /\ players["C"].deaths = 0
    /\ BoardOrder(out[1].board) = <<"B", "A", "C">>

\* the step processes an event that names a connection without a session:
\* an updateMovement or shoot of a sender that has none, or a hit whose
\* shooter or victim has none
StaleStep ==
    \/ /\ ev'.type \in {"updateMovement", "shoot"}
       /\ ev'.id \notin DOMAIN players
    \/ /\ ev'.type = "hit"
       /\ (ev'.id \notin DOMAIN players \/ ev'.victimId \notin DOMAIN players)

\* C17: an updateMovement or shoot from a connection with no session, and a
\* hit whose shooter or victim has no session, do nothing: no session is
\* created or changed, the round and the timers are as before, and no message
\* is sent.
C17_StaleNoOp ==
    [][StaleStep
       => /\ players' = players
          /\ keys' = keys
          /\ gameInProgress' = gameInProgress
          /\ timers' = timers
          /\ out' = <<>>
      ]_vars

\* during an active round a living player with a session has just sent a hit
\* on a victim whose connection has closed: nothing was sent
C17_Witness ==
    /\ ev.type = "hit"
    /\ gameInProgress
    /\ ev.id \in DOMAIN players
    /\ players[ev.id].hp > 0
    /\ ev.victimId \in closed
    /\ ev.victimId \notin DOMAIN players
    /\ out = <<>>

\* C18: join gives the connection a session with hp = MAX_HP, kills = 0,
\* deaths = 0 and a spawn position (x, z in [-50, 50), y = 2), whatever the
\* round state, and leaves the other sessions as they were; the joiner alone
\* receives currentPlayers holding every session that existed before plus its
\* own; every other connected client, and not the joiner, receives one
\* playerJoined for the new session.
C18_Join ==
    [][ev'.type = "join"
       => LET i == ev'.id
              q == players'[i]
              cur == OfType(out', "currentPlayers")
              joined == OfType(out', "playerJoined")
          IN /\ DOMAIN players' = DOMAIN players \cup {i}
             /\ q.hp = MAX_HP /\ q.kills = 0 /\ q.deaths = 0
             /\ q.x \in -50..49 /\ q.z \in -50..49 /\ q.y = 2
             /\ \A j \in DOMAIN players \ {i} : players'[j] = players[j]
             /\ gameInProgress' = gameInProgress
             /\ cur = {1}
             /\ out'[1].to = {i}
             /\ DOMAIN out'[1].players = DOMAIN players \cup {i}
             /\ out'[1].players[i] = q
             /\ \A j \in DOMAIN players \ {i} : out'[1].players[j] = players[j]
             /\ joined = {2}
             /\ out'[2].to = conn \ {i}
             /\ out'[2].id = i
             /\ out'[2].player = q
      ]_vars

\* a join processed during the win screen, with the winner's session present
\* and its client connected: the joiner has full health and zero counts, the
\* winner is in its currentPlayers and is the one to receive playerJoined
C18_Witness ==
    /\ ev.type = "join"
    /\ ~gameInProgress
    /\ conn = {"a", "b"}
    /\ DOMAIN players = {"a", "b"}
    /\ players[ev.id].hp = MAX_HP
    /\ \E j \in DOMAIN players \ {ev.id} :
         /\ players[j].kills = KILLS_TO_WIN
         /\ out[1].players[j] = players[j]
         /\ out[2].to = {j}

\* the field names of the mesh orientation
MeshFields == {"meshQx", "meshQy", "meshQz", "meshQw"}

\* C19: updateMovement for an existing session makes the session's stored
\* transform (position, body orientation and mesh orientation) equal to the
\* payload, relays the same values to every other client as playerMoved, and
\* leaves hp, kills, deaths, name and appearance unchanged.
C19_MovementStored ==
    [][(ev'.type = "updateMovement" /\ ev'.id \in DOMAIN players)
       => \E d \in MovePayloads :
            LET i == ev'.id
                p == players[i]
                q == players'[i]
            IN /\ q.x = d.x /\ q.y = d.y /\ q.z = d.z
               /\ q.qx = d.qx /\ q.qy = d.qy /\ q.qz = d.qz /\ q.qw = d.qw
               /\ out' = << [type |-> "playerMoved", to |-> conn \ {i}, id |-> i,
                             x |-> d.x, y |-> d.y, z |-> d.z,
                             qx |-> d.qx, qy |-> d.qy, qz |-> d.qz, qw |-> d.qw,
                             meshQx |-> d.meshQx, meshQy |-> d.meshQy,
                             meshQz |-> d.meshQz, meshQw |-> d.meshQw] >>
               /\ q.hp = p.hp /\ q.kills = p.kills /\ q.deaths = p.deaths
               /\ q.name = p.name /\ q.hatType = p.hatType
               /\ q.hatColor = p.hatColor /\ q.furColor = p.furColor
               /\ q.coatColor = p.coatColor
               /\ MeshFields \subseteq DOMAIN q
               /\ q.meshQx = d.meshQx /\ q.meshQy = d.meshQy
               /\ q.meshQz = d.meshQz /\ q.meshQw = d.meshQw
      ]_vars

\* C20: when a connection that has a session disconnects, the session is
\* removed from the players object and the other sessions are unchanged;
\* playerLeft with its id goes to all other clients, then a scoreboardUpdate
\* that has a row for each remaining session and none for that id.
C20_Disconnect ==
    [][(ev'.type = "disconnect" /\ ev'.id \in DOMAIN players)
       => LET i == ev'.id
          IN /\ DOMAIN players' = DOMAIN players \ {i}
             /\ \A j \in DOMAIN players' : players'[j] = players[j]
             /\ Len(out') = 2
             /\ out'[1] = [type |-> "playerLeft", to |-> conn \ {i}, id |-> i]
             /\ out'[2].type = "scoreboardUpdate"
             /\ out'[2].to = conn \ {i}
             /\ BoardReflects(out'[2].board, players')
             /\ \A k \in 1..Len(out'[2].board) : out'[2].board[k].id # i
      ]_vars

\* a player that had been killed has just disconnected before its respawn
\* (its timer is still pending); the killer's session remains, and its client
\* received playerLeft and a scoreboard of one row
C20_Witness ==
    /\ ev.type = "disconnect"
    /\ ev.id \notin DOMAIN players
    /\ \E k \in 1..Len(timers) : timers[k].victimId = ev.id
    /\ \E j \in DOMAIN players :
         /\ players[j].kills >= 1
         /\ out[1].to = {j}
         /\ Len(out[2].board) = 1
         /\ out[2].board[1].id = j

\* the messages relayed on behalf of a connection, and those published to all
RelayedTypes == {"playerMoved", "playerShot", "playerJoined", "playerLeft"}
PublishedTypes ==
    {"playerDamaged", "playerDied", "scoreboardUpdate", "gameWon", "gameReset"}

\* C21: playerMoved, playerShot, playerJoined and playerLeft caused by a
\* connection go to every connected client but that connection; playerDamaged,
\* playerDied, scoreboardUpdate, gameWon and gameReset go to every connected
\* client, the shooter and the victim included.
C21_Delivery ==
    \A k \in 1..Len(out) :
      /\ out[k].type \in RelayedTypes
           => (ev.id \notin out[k].to /\ out[k].to = conn \ {ev.id})
      /\ out[k].type \in PublishedTypes => out[k].to = conn

\* a lethal hit between two connected players: playerDamaged, playerDied and
\* the scoreboard each went to the shooter and to the victim
C21_Witness ==
    /\ ev.type = "hit"
    /\ ev.id # ev.victimId
    /\ {ev.id, ev.victimId} \subseteq conn
    /\ Len(out) >= 3
    /\ out[2].type = "playerDied"
    /\ \A k \in 1..3 : {ev.id, ev.victimId} \subseteq out[k].to

(* ------------------------- properties of the client -------------------- *)

\* the last step was the handler of the server message type naming id
Handled(type, id) == ev'.type = type /\ ev'.id = id

\* C22: the local player's hp and dead flag change only in the handler of a
\* playerDamaged, playerDied or playerRespawn naming the local id; no frame
\* of the local simulation (a replayed remote shot included) changes them.
C22_LocalHealthFromServer ==
    [][rat' # rat =>
         \E t \in {"playerDamaged", "playerDied", "playerRespawn"} :
            Handled(t, LocalId)]_vars

\* C23: the handler of a playerDied naming the local player leaves the local
\* entity's dead flag true, and the flag is cleared only by the handler of a
\* playerRespawn naming the local player.
C23_LocalDeathPresentation ==
    [][/\ Handled("playerDied", LocalId) => rat'.dead
       /\ rat.dead /\ ~rat'.dead => Handled("playerRespawn", LocalId)]_vars

\* the hit messages among the messages ms, and the projectiles of the local
\* player among bs
Hits(ms) == {i \in DOMAIN ms : ms[i].type = "hit"}
Own(bs) == {i \in DOMAIN bs : bs[i].owner = LocalId}

\* C24: a client sends hit only for a projectile its own player fired: each
\* hit sent in a step ends one of the local player's projectiles, and a step
\* with no such projectile sends none.
C24_HitOnlyForOwnShot ==
    [][Hits(out') # {} =>
         Cardinality(Hits(out')) <= Cardinality(Own(balls)) - Cardinality(Own(balls'))]_vars

\* the avatar of i is known before and after the step
Known(i) == i \in DOMAIN remoteRats /\ i \in DOMAIN remoteRats'

\* the rendered transform of the avatar of i is the same after the step
SameRendered(i) ==
    /\ remoteRats'[i].meshPos = remoteRats[i].meshPos
    /\ remoteRats'[i].meshQuat = remoteRats[i].meshQuat

MovedTargets ==
    {[targetPos |-> Vec(d.x, d.y, d.z),
      targetMeshQuat |-> Yaw(d.meshQx, d.meshQy, d.meshQz, d.meshQw)] :
        d \in RemoteMoves}

\* C26: the playerMoved handler writes only targetPos, targetMeshQuat and
\* lastUpdate of the avatar it names: the rendered transform, the physics
\* position, hp and dead flag of that avatar, every other avatar, the local
\* player and the projectiles are unchanged; for an unknown id nothing
\* changes and no avatar is created.
C26_MovedWritesTargetOnly ==
    [][\A i \in RemoteIds :
         Handled("playerMoved", i) =>
           /\ DOMAIN remoteRats' = DOMAIN remoteRats
           /\ \A j \in DOMAIN remoteRats \ {i} : remoteRats'[j] = remoteRats[j]
           /\ i \in DOMAIN remoteRats =>
                /\ \E t \in MovedTargets :
                     remoteRats'[i] =
                       [remoteRats[i] EXCEPT !.targetPos = t.targetPos,
                                             !.targetMeshQuat = t.targetMeshQuat,
                                             !.lastUpdate = "playerMoved"]
                /\ SameRendered(i)
                /\ remoteRats'[i].bodyPos = remoteRats[i].bodyPos
                /\ remoteRats'[i].hp = remoteRats[i].hp
                /\ remoteRats'[i].dead = remoteRats[i].dead
           /\ UNCHANGED <<rat, balls, myId>>]_vars

\* a playerMoved has been handled for a known avatar, which is now rendered
\* away from its target, while a second avatar exists
C26_Witness ==
    /\ ev.type = "playerMoved"
    /\ ev.id \in DOMAIN remoteRats
    /\ remoteRats[ev.id].targetPos # remoteRats[ev.id].meshPos
    /\ DOMAIN remoteRats # {ev.id}

\* C27: after the handler of a playerRespawn naming a known remote player the
\* avatar is alive with the message's hp, its rendered position, physics
\* position and interpolation target are the message's position, and an
\* interpolation step leaves the rendered position where it is.
C27_RemoteRespawnSnaps ==
    [][\A i \in RemoteIds :
         Handled("playerRespawn", i) /\ Known(i) =>
           LET r == remoteRats'[i]
               at == Vec(RespawnPoint.x, RespawnPoint.y, RespawnPoint.z)
           IN /\ ~r.dead
              /\ r.hp = MAX_HP
              /\ r.meshPos = at /\ r.bodyPos = at /\ r.targetPos = at
              /\ \A dt \in AnimateDts :
                   Interpolated(r, lerpFactor(dt)).meshPos = r.meshPos]_vars

\* a dead avatar whose target had been moved has been respawned
C27_Witness ==
    /\ ev.type = "playerRespawn"
    /\ ev.id \in DOMAIN remoteRats
    /\ remoteRats[ev.id].lastUpdate = "playerMoved"
    /\ ~remoteRats[ev.id].dead
    /\ remoteRats[ev.id].hp = MAX_HP

\* C28: when the snapshot is all the server has sent to a client, the avatar
\* the client builds for a player P of the snapshot is dead if and only if the
\* session of P has hp <= 0.
C28_DeadMirrorsSession ==
    [][ev'.type = "currentPlayers" =>
         \A i \in DOMAIN remoteRats' \ DOMAIN remoteRats :
            remoteRats'[i].dead <=> players[i].hp <= 0]_vars

(* --------------------------- death and return -------------------------- *)

\* the session of i has hp <= 0
Dead(i) == i \in DOMAIN players /\ players[i].hp <= 0

\* the last handler broadcast a playerRespawn naming i
RespawnSent(i) ==
    \E k \in DOMAIN out : out[k].type = "playerRespawn" /\ out[k].id = i

\* C29: when pending timers eventually fire, a session whose hp is <= 0 is
\* later either removed or back at MAX_HP, and a playerRespawn naming it is
\* broadcast unless it is removed: no session stays at hp <= 0 forever.
C29_DeathLeadsToAlive ==
    \A i \in Ids :
       /\ Dead(i) ~> (i \notin DOMAIN players \/ players[i].hp = MAX_HP)
       /\ Dead(i) ~> (i \notin DOMAIN players \/ RespawnSent(i))

\* a session that was dead is back at MAX_HP by the respawn broadcast of its
\* timer
C29_Witness ==
    /\ ev.type = "respawn"
    /\ ev.id \in DOMAIN players
    /\ players[ev.id].deaths > 0
    /\ players[ev.id].hp = MAX_HP
    /\ RespawnSent(ev.id)

(* ------------------------------ convergence ---------------------------- *)

\* what the rendered position of the avatar p is short of its target, on the
\* three axes
Offsets(r) ==
    << Minus(r.targetPos.x, r.meshPos.x), Minus(r.targetPos.y, r.meshPos.y),
       Minus(r.targetPos.z, r.meshPos.z) >>

\* |a| for a fraction, and its sign
Abs(a) == [a EXCEPT !.n = IF a.n < 0 THEN -a.n ELSE a.n]
Sign(a) == IF a.n < 0 THEN -1 ELSE IF a.n > 0 THEN 1 ELSE 0

\* min(12 * dt, 1) in tenths, for dt in units of 1/120 s
Fraction(dt) == IF dt <= 10 THEN dt ELSE 10

\* b = a * (1 - f / 10) for fractions a, b
Remains(a, b, f) ==
    LET k == IF a.k > b.k THEN a.k ELSE b.k
    IN 10 * Scaled(b, k) = (10 - f) * Scaled(a, k)

\* a distance that counts as arrived
Epsilon == [n |-> 1, k |-> 1]

\* the rendered position is within Epsilon of the target on every axis
Arrived ==
    \A i \in DOMAIN remoteRats :
       \A c \in 1..3 : Less(Abs(Offsets(remoteRats[i])[c]), Epsilon)

\* C30: with the target unchanged, a step updateRemoteRats(dt) leaves on each
\* axis the offset to the target times 1 - min(12 * dt, 1): the offset keeps
\* its sign or becomes 0 and does not grow; and the rendered position comes
\* within Epsilon of the target.
C30_LerpConverges ==
    /\ [][ev'.type = "updateRemoteRats" =>
            \A i \in DOMAIN remoteRats :
               /\ remoteRats'[i].targetPos = remoteRats[i].targetPos
               /\ \A c \in 1..3 :
                    LET o == Offsets(remoteRats[i])[c]
                        n == Offsets(remoteRats'[i])[c]
                    IN /\ Remains(o, n, Fraction(ev'.dt))
                       /\ Sign(n) \in {Sign(o), 0}
                       /\ ~Less(Abs(o), Abs(n))]_vars
    /\ <>Arrived

\* frames of a length below 1/12 s have brought an avatar that started away
\* from its target to within Epsilon of it, without reaching it
C30_Witness ==
    /\ ev.type = "updateRemoteRats"
    /\ ev.dt < 10
    /\ Arrived
    /\ \E i \in DOMAIN remoteRats :
         remoteRats[i].meshPos.x # remoteRats[i].targetPos.x

(* ------------------------- the round and its counts -------------------- *)

\* C32: when the pending timer eventually fires, a round marked inactive by a
\* win becomes active again, whoever has disconnected in the meantime.
C32_InactiveEnds == ~gameInProgress ~> gameInProgress

\* resetGame has run and set the round active with no session left
C32_Witness ==
    /\ ev.type = "reset"
    /\ gameInProgress
    /\ DOMAIN players = {}
    /\ conn = {}

\* C33: no session has more than KILLS_TO_WIN kills, and while the round is
\* active every session has fewer than KILLS_TO_WIN kills.
C33_KillsBounded ==
    \A i \in DOMAIN players :
       /\ players[i].kills <= KILLS_TO_WIN
       /\ gameInProgress => players[i].kills < KILLS_TO_WIN

\* the round is inactive and the winner has KILLS_TO_WIN kills
C33_Witness ==
    /\ ~gameInProgress
    /\ \E i \in DOMAIN players : players[i].kills = KILLS_TO_WIN

\* the scoreboards broadcast by the last handler, in the order sent
Boards(ms) == SelectSeq(ms, LAMBDA m : m.type = "scoreboardUpdate")

\* C36: the scoreboard last broadcast is the scoreboard of the session map:
\* a handler or timer callback that broadcasts scoreboards ends with the one
\* of the sessions it leaves, and one that broadcasts none leaves the
\* scoreboard of the sessions as it was.
C36_ScoreboardFresh ==
    [][LET bs == Boards(out')
       IN IF bs # <<>>
          THEN bs[Len(bs)].board = buildScoreboard(players', keys')
          ELSE buildScoreboard(players', keys') = buildScoreboard(players, keys)]_vars

\* resetGame has run over sessions with kills and broadcast the zeroed board
C36_Witness ==
    /\ ev.type = "reset"
    /\ DOMAIN players # {}
    /\ Boards(out) # <<>>
    /\ \A i \in DOMAIN players : players[i].kills = 0

\* the sums of kills and of deaths over the sessions ps
RECURSIVE SumOver(_, _, _)
SumOver(ps, S, kills) ==
    IF S = {} THEN 0
    ELSE LET i == CHOOSE j \in S : TRUE
         IN (IF kills THEN ps[i].kills ELSE ps[i].deaths)
            + SumOver(ps, S \ {i}, kills)
KillsSum(ps) == SumOver(ps, DOMAIN ps, TRUE)
DeathsSum(ps) == SumOver(ps, DOMAIN ps, FALSE)

\* C37: a hit, a respawn or a reset keeps the sum of kills over all sessions
\* equal to the sum of deaths over all sessions.
C37_KillsEqualDeaths ==
    [][ev'.type \in {"hit", "respawn", "reset"}
         /\ KillsSum(players) = DeathsSum(players)
       => KillsSum(players') = DeathsSum(players')]_vars

\* a lethal hit has raised both sums, which are equal
C37_Witness ==
    /\ ev.type = "hit"
    /\ OfType(out, "playerDied") # {}
    /\ KillsSum(players) = DeathsSum(players)
    /\ KillsSum(players) > 0

(* --------------------------- timers and deaths ------------------------- *)

\* the respawn timers pending for the session id
RespawnsFor(ts, id) ==
    {k \in 1..Len(ts) : ts[k].kind = "respawn" /\ ts[k].victimId = id}

\* C34: when every connection joins at most once, no session has two respawn
\* timers pending, and while the round is active a session has hp <= 0 if and
\* only if exactly one respawn timer is pending for it.
C34_DeadIffOneTimer ==
    \A i \in DOMAIN players :
       /\ Cardinality(RespawnsFor(timers, i)) <= 1
       /\ gameInProgress =>
            (players[i].hp <= 0 <=> Cardinality(RespawnsFor(timers, i)) = 1)

\* the round is active, a session is dead and its one respawn timer is
\* pending, while another session is alive with none
C34_Witness ==
    /\ gameInProgress
    /\ \E i, j \in DOMAIN players :
         /\ players[i].hp <= 0
         /\ Cardinality(RespawnsFor(timers, i)) = 1
         /\ players[j].hp > 0
         /\ RespawnsFor(timers, j) = {}

\* the pending timers are in the order they come due: a timer scheduled
\* later with a delay at least as long comes due later
TimersInDueOrder ==
    \A j, k \in 1..Len(timers) : j < k => Delay(timers[j]) <= Delay(timers[k])

\* C35: no respawn timer is scheduled while a reset is pending, so that with
\* RESPAWN_DELAY_MS < WIN_DISPLAY_MS none is pending when resetGame runs or
\* after it; and a respawn timer that fires changes nothing of a session that
\* is alive.
C35_NoRespawnAcrossReset ==
    /\ RESPAWN_DELAY_MS < WIN_DISPLAY_MS
    /\ []TimersInDueOrder
    /\ [][/\ ev'.type = "reset" =>
               Pending(timers, "respawn") = 0 /\ Pending(timers', "respawn") = 0
          /\ ev'.type = "respawn" =>
               \A i \in DOMAIN players :
                  players[i].hp > 0 => i \in DOMAIN players' /\ players'[i] = players[i]]_vars

\* the round has been won while a respawn timer was pending: the reset is
\* scheduled behind it
C35_Witness ==
    /\ ev.type = "hit"
    /\ ~gameInProgress
    /\ Len(timers) = 2
    /\ timers[1].kind = "respawn"
    /\ timers[2].kind = "reset"

\* C38: a hit sent by a shooter whose session has hp <= 0 is processed like
\* any other: while the round is active and the victim is alive, the victim
\* loses the damage and playerDamaged is broadcast; if that kills the victim
\* the dead shooter's kills rise by 1 and playerDied is broadcast; and if that
\* reaches KILLS_TO_WIN the round is won.
C38_DeadShooterHits ==
    [][\A s, v \in DOMAIN players :
         /\ ev'.type = "hit" /\ ev'.id = s /\ ev'.victimId = v
         /\ gameInProgress
         /\ players[s].hp <= 0
         /\ players[v].hp > 0
         => /\ players'[v].hp = players[v].hp - ev'.damage
            /\ OfType(out', "playerDamaged") # {}
            /\ players'[v].hp <= 0 =>
                 /\ players'[s].kills = players[s].kills + 1
                 /\ players'[v].deaths = players[v].deaths + 1
                 /\ OfType(out', "playerDied") # {}
                 /\ players'[s].kills >= KILLS_TO_WIN =>
                      /\ ~gameInProgress'
                      /\ OfType(out', "gameWon") # {}]_vars

\* a shooter that is dead has won the round by its hit
C38_Witness ==
    /\ ev.type = "hit"
    /\ ~gameInProgress
    /\ OfType(out, "gameWon") # {}
    /\ ev.id \in DOMAIN players
    /\ players[ev.id].hp <= 0
    /\ players[ev.id].kills = KILLS_TO_WIN

(* ------------------------ what the client sends ------------------------ *)

\* C40: while the local player's dead flag is set the client sends no shoot
\* and no updateMovement, and only the handler of the local playerRespawn
\* clears the flag.
C40_DeadSendsNothing ==
    [][rat.dead =>
         /\ \A k \in DOMAIN out' : out'[k].type \notin {"shoot", "updateMovement"}
         /\ ~rat'.dead => Handled("playerRespawn", LocalId)]_vars

\* a frame has run while the local player was dead, a projectile shot after
\* its death in flight, and nothing was sent
C40_Witness ==
    /\ ev.type = "animate"
    /\ rat.dead
    /\ balls # <<>>
    /\ out = <<>>

(* ----------------------- the rate of movement sends -------------------- *)

\* C31: two consecutive updateMovement emissions of the client are at least
\* SEND_INTERVAL = 40 ms apart, however often sendMovement is called.
C31_MovementThrottled ==
    /\ SEND_INTERVAL = 40
    /\ [][\A k \in DOMAIN out' :
            out'[k].type = "updateMovement" /\ ev.type = "updateMovement"
               => now' - ev.at >= SEND_INTERVAL]_vars

\* a second emission exactly one send interval after the first
C31_Witness ==
    /\ ev.type = "updateMovement"
    /\ out # <<>>
    /\ ev.prev # Undefined
    /\ ev.at - ev.prev = SEND_INTERVAL

(* ------------------------------ the roster ----------------------------- *)

\* every message emitted for the client has been handled
Settled ==
    /\ inbox = <<>>
    /\ \A k \in DOMAIN out : LocalId \notin out[k].to

\* C39: once a joined client has handled every message sent to it, the keys
\* of its remoteRats map are the server's session ids without its own id.
C39_RosterConsistent ==
    LocalId \in DOMAIN players /\ Settled
        => DOMAIN remoteRats = DOMAIN players \ {LocalId}

\* the client handles its snapshot having already met a player through
\* playerJoined, and ends with an avatar for each of the two other players
C39_Witness ==
    /\ ev.type = "currentPlayers"
    /\ ev.before # {}
    /\ LocalId \in DOMAIN players
    /\ Settled
    /\ DOMAIN remoteRats = RemoteIds

====
